---- MODULE Spec2Model ----
(***************************************************************************)
(* LayoutHandler of powerman/slogx: the handler that renders a slog record *)
(* as one text line, with per-key formats and prefix/suffix placement.     *)
(*                                                                         *)
(* A buffer is a sequence of non-empty byte runs ("atoms"): a key, "=", a  *)
(* separator, a rendered value, a literal of a format.  len(buf) > 0 in    *)
(* the code is Len(buf) > 0 here, because no empty atom is ever written.   *)
(***************************************************************************)
EXTENDS Integers, Sequences, FiniteSets, TLC

VARIABLES
    handlers,   \* the LayoutHandler values created so far (1 is NewLayoutHandler's);
                \* for GroupOrAttrs and WrapHandler, the objects allocated so far
    parent,     \* parent[i]: the handler i was derived from (0 for the root)
    hist,       \* history: the WithAttrs/WithGroup calls that made each handler
    w,          \* the sink: what the last Write received, and for which call
    mu,         \* the mutex shared by all clones: Unlocked, or the goroutine holding it
    calls,      \* the Handle calls in progress, one per goroutine
    fmtIn,      \* the values of opts.Format, in the order the map gives them
    fmtOut      \* what NewLayoutHandler did with them

vars == <<handlers, parent, hist, w, mu, calls, fmtIn, fmtOut>>

----------------------------------------------------------------------------
(* Keys and constants of the source                                        *)

TimeKey == "time"
LevelKey == "level"
SourceKey == "source"
MessageKey == "msg"

attrSep == " "
keyComponentSep == "."

sepNone == "sepNone"
sepSkipped == "sepSkipped"
sepIncluded == "sepIncluded"

noFormat ==
    [Prefix |-> "", Suffix |-> "", MinWidth |-> 0, MaxWidth |-> -1,
     AlignRight |-> FALSE, TruncFromStart |-> FALSE, SkipQuote |-> FALSE]

----------------------------------------------------------------------------
(* Attributes and values                                                   *)

\* The levels of log/slog.
LevelDebug == -4
LevelInfo == 0
LevelWarn == 4
LevelError == 8

\* The decimal digits of a number below 100.
DecimalChars(n) ==
    LET digit == <<"0", "1", "2", "3", "4", "5", "6", "7", "8", "9">>
    IN  IF n < 10 THEN <<digit[n + 1]>> ELSE <<digit[(n \div 10) + 1], digit[(n % 10) + 1]>>

\* fmt.Sprintf("%+d", d), by character.
SignedChars(d) == IF d < 0 THEN <<"-">> \o DecimalChars(-d) ELSE <<"+">> \o DecimalChars(d)

\* slog.Level.String, by character: the name of the highest canonical
\* level not above l, then the signed offset from it when it is not 0.
LevelChars(l) ==
    LET str(base, val) == IF val = 0 THEN base ELSE base \o SignedChars(val)
    IN  CASE l < LevelInfo -> str(<<"D", "E", "B", "U", "G">>, l - LevelDebug)
          [] l >= LevelInfo /\ l < LevelWarn -> str(<<"I", "N", "F", "O">>, l - LevelInfo)
          [] l >= LevelWarn /\ l < LevelError -> str(<<"W", "A", "R", "N">>, l - LevelWarn)
          [] OTHER -> str(<<"E", "R", "R", "O", "R">>, l - LevelError)

RECURSIVE Concat(_)
Concat(atoms) == IF atoms = <<>> THEN "" ELSE Head(atoms) \o Concat(Tail(atoms))

LevelString(l) == Concat(LevelChars(l))

\* A value: its kind, its text (str; for a string given by its bytes,
\* text), its attributes (a group), its number (a level).
StringValue(str) == [kind |-> "String", str |-> str, group |-> <<>>, text |-> <<>>, level |-> 0]
GroupValue(as) == [kind |-> "Group", str |-> "", group |-> as, text |-> <<>>, level |-> 0]
TimeValue(t) == [kind |-> "Time", str |-> t, group |-> <<>>, text |-> <<>>, level |-> 0]
LevelValue(l) == [kind |-> "Level", str |-> LevelString(l), group |-> <<>>, text |-> <<>>, level |-> l]
SourceValue(src) == [kind |-> "Source", str |-> src, group |-> <<>>, text |-> <<>>, level |-> 0]
NilValue == [kind |-> "Any", str |-> "", group |-> <<>>, text |-> <<>>, level |-> 0]

\* Values whose text conversion fails: a non-nil value whose conversion
\* panics with message msg, a nil pointer whose conversion panics, and a
\* value whose conversion returns the error err.
PanicValue(msg) == [kind |-> "Panics", str |-> msg, group |-> <<>>, text |-> <<>>, level |-> 0]
NilPointerValue == [kind |-> "NilPointer", str |-> "", group |-> <<>>, text |-> <<>>, level |-> 0]
ErrorValue(err) == [kind |-> "Fails", str |-> err, group |-> <<>>, text |-> <<>>, level |-> 0]

\* A LogValuer whose LogValue is the string str, and Value.Resolve.
LogValuerValue(str) == [kind |-> "LogValuer", str |-> str, group |-> <<>>, text |-> <<>>, level |-> 0]

Resolve(v) == IF v.kind = "LogValuer" THEN StringValue(v.str) ELSE v

\* A string value given by its bytes.
TextValue(bytes) == [kind |-> "Text", str |-> "", group |-> <<>>, text |-> bytes, level |-> 0]

Attr(key, value) == [Key |-> key, Value |-> value]
String(key, str) == Attr(key, StringValue(str))
Group(key, as) == Attr(key, GroupValue(as))
EmptyAttr == Attr("", NilValue)

\* The zero time.Time and the Source of a record without a PC.
ZeroTime == ""
NoSource == ""

isEmptySource(src) == src = NoSource

isEmptyGroupValue(v) == v.kind = "Group" /\ Len(v.group) = 0

countEmptyGroups(as) ==
    Cardinality({i \in 1..Len(as) : isEmptyGroupValue(as[i].Value)})

----------------------------------------------------------------------------
(* ReplaceAttr callbacks, by name.  "nil" is no callback.                  *)

ReplaceAttrNil == "nil"

\* removeTime of the tests: drops the top-level time attribute.
removeTime(groups, a) ==
    IF a.Key = TimeKey /\ Len(groups) = 0 THEN EmptyAttr ELSE a

\* A callback that uses every kind of result: it drops the top-level
\* time, every "d" and a "y" whose value is 0; it turns "u" into the group
\* "n" and "i" into a group with an empty key; it renames "r" to "x" and
\* "y" to "k"; it leaves everything else as it is.
rewrite(groups, a) ==
    CASE a.Key = TimeKey /\ Len(groups) = 0 -> EmptyAttr
      [] a.Key = "d" -> EmptyAttr
      [] a.Key = "y" /\ a.Value.str = "0" -> EmptyAttr
      [] a.Key = "y" /\ a.Value.str = "9" -> Attr("k", a.Value)
      [] a.Key = "u" -> Attr("n", GroupValue(<<Attr("b", a.Value), String("c", "8")>>))
      [] a.Key = "i" -> Attr("", GroupValue(<<Attr("c", a.Value)>>))
      [] a.Key = "r" -> Attr("x", StringValue(a.Value.str \o "!"))
      [] OTHER -> a

RECURSIVE joinGroups(_)
joinGroups(groups) ==
    IF groups = <<>> THEN "" ELSE "/" \o Head(groups) \o joinGroups(Tail(groups))

\* A callback that shows its arguments: it puts the groups it is given
\* after the value of every string attribute, and drops a group.
showGroups(groups, a) ==
    CASE a.Value.kind = "String" ->
            Attr(a.Key, StringValue(a.Value.str \o "@" \o joinGroups(groups)))
      [] a.Value.kind = "Group" -> EmptyAttr
      [] OTHER -> a

\* A closeGroup that leaves the name in the list of open groups.
closeGroupListed(s, name) == [s EXCEPT !.prefix = SubSeq(@, 1, Len(@) - 2)]

\* A callback that is never called.
CallNoReplaceAttr(rep, groups, a) == a

CallReplaceAttr(rep, groups, a) ==
    CASE rep = "removeTime" -> removeTime(groups, a)
      [] rep = "rewrite" -> rewrite(groups, a)
      [] rep = "showGroups" -> showGroups(groups, a)
      [] OTHER -> a

----------------------------------------------------------------------------
(* layoutAttrs: the prefix/suffix slots                                    *)

IndexOf(seq, x) ==
    IF \E i \in 1..Len(seq) : seq[i] = x
    THEN CHOOSE i \in 1..Len(seq) : seq[i] = x /\ \A j \in 1..(i-1) : seq[j] # x
    ELSE 0

makeLayoutAttrs(opts) ==
    [i \in 1..(Len(opts.PrefixKeys) + Len(opts.SuffixKeys)) |-> <<>>]

hasPrefix(la, opts) ==
    \E i \in 1..Len(opts.PrefixKeys) : Len(la[i]) > 0

\* A layout without slots: no key has one.
layoutIndexNone(key, opts) == 0

\* layoutAttrs.buffer, the lookup: the slot of key (0: none).
layoutIndex(key, opts) ==
    LET i == IndexOf(opts.PrefixKeys, key)
        j == IndexOf(opts.SuffixKeys, key)
    IN  IF i > 0 THEN i
        ELSE IF j > 0 THEN j + Len(opts.PrefixKeys)
        ELSE 0

\* A slot that keeps what it holds.
bufferKept(la, i) == la

\* layoutAttrs.buffer, the reset: slot i starts as a new empty buffer.
buffer(la, i) == [la EXCEPT ![i] = <<>>]

----------------------------------------------------------------------------
(* handleState: the working memory of one WithAttrs or Handle call.        *)
(* redirect is the slot s.buf points to while an attribute is rendered     *)
(* into layoutAttrs, 0 while s.buf is the call's own buffer.               *)

newHandleState(h, layoutAttrs, buf) ==
    [h |-> h,
     la |-> layoutAttrs,
     buf |-> buf,
     redirect |-> 0,
     bufStart |-> sepNone,
     prefix |-> <<>>,
     messagePos |-> 0,
     groupsNil |-> h.opts.ReplaceAttr = ReplaceAttrNil,
     groups |-> IF h.opts.ReplaceAttr = ReplaceAttrNil THEN <<>> ELSE h.groups]

BufLen(s) == IF s.redirect = 0 THEN Len(s.buf) ELSE Len(s.la[s.redirect])

Write(s, atoms) ==
    IF s.redirect = 0
    THEN [s EXCEPT !.buf = @ \o atoms]
    ELSE [s EXCEPT !.la[s.redirect] = @ \o atoms]

WriteString(s, str) == IF str = "" THEN s ELSE Write(s, <<str>>)

\* The strings of the model that the text handler quotes.
needsQuoting(str) == str \in {"", "a b", "!PANIC: boom"}

Quote(str) == "\"" \o str \o "\""

appendString(s, str, format) ==
    IF ~format.SkipQuote /\ needsQuoting(str)
    THEN Write(s, <<Quote(str)>>)
    ELSE WriteString(s, str)

\* A string given by its bytes: an ASCII byte is its character, a byte
\* above 0x7F is its two hex digits.  The bytes 80..BF continue a code
\* point; C3 starts one of two bytes, E2 and E4 one of three, F0 one of
\* four.
ContBytes == {"80", "96", "98", "9F", "A6", "A9", "B8"}

leadSize(b) ==
    CASE b = "C3" -> 2
      [] b \in {"E2", "E4"} -> 3
      [] b = "F0" -> 4
      [] OTHER -> 1

\* A decoder that takes every byte for a code point.
DecodeByte(buf, i) == 1

\* utf8.DecodeRune(buf[i:]), the size it returns: the width of the code
\* point that starts at byte i (counted from 0), 1 for a byte that starts
\* no complete code point.
DecodeRune(buf, i) ==
    IF i + leadSize(buf[i + 1]) <= Len(buf)
       /\ \A j \in 2..leadSize(buf[i + 1]) : buf[i + j] \in ContBytes
    THEN leadSize(buf[i + 1])
    ELSE 1

\* The ellipsis, U+2026.
Ellipsis == <<"E2", "80", "A6">>

\* needsQuoting for a string given by its bytes: it is empty, or has a
\* space, a quote or an equals sign.
needsQuotingText(bytes) ==
    bytes = <<>> \/ \E i \in 1..Len(bytes) : bytes[i] \in {" ", "\"", "="}

\* strconv.AppendQuote for a string given by its bytes: quotes around it,
\* a backslash before every quote in it.
RECURSIVE escapeText(_)
escapeText(bytes) ==
    IF bytes = <<>> THEN <<>>
    ELSE (IF Head(bytes) = "\"" THEN <<"\\", "\"">> ELSE <<Head(bytes)>>)
             \o escapeText(Tail(bytes))

QuoteText(bytes) == <<"\"">> \o escapeText(bytes) \o <<"\"">>

\* appendString for a string given by its bytes.
appendStringText(s, bytes, format) ==
    IF ~format.SkipQuote /\ needsQuotingText(bytes)
    THEN Write(s, QuoteText(bytes))
    ELSE Write(s, bytes)

appendTime(s, key, t) == WriteString(s, t)

\* The text of a value: a string as appendString makes it, a time as
\* appendTime does, a level by its name.
appendTextValue(s, key, v, format) ==
    CASE v.kind = "String" -> appendString(s, v.str, format)
      [] v.kind = "Time" -> appendTime(s, key, v.str)
      [] v.kind = "Level" -> appendString(s, v.str, format)
      [] v.kind = "Text" -> appendStringText(s, v.text, format)
      [] OTHER -> appendString(s, "<nil>", format)

\* How appendTextValue ends for v: it returns nil, returns an error, or
\* panics (nothing is written before a conversion fails).
textOutcome(v) ==
    CASE v.kind \in {"Panics", "NilPointer"} -> "panic"
      [] v.kind = "Fails" -> "error"
      [] OTHER -> "nil"

\* reflect.ValueOf(v.Any()) is a nil pointer.
isNilPointer(v) == v.kind = "NilPointer"

\* An error that leaves no mark.
appendErrorNothing(s, err) == s

appendError(s, err) == appendString(s, "!ERROR:" \o err, noFormat)

appendValue(s, key, v, format) ==
    CASE textOutcome(v) = "panic" ->
            IF isNilPointer(v) THEN appendString(s, "<nil>", noFormat)
            ELSE appendString(s, "!PANIC: " \o v.str, noFormat)
      [] textOutcome(v) = "error" -> appendError(s, v.str)
      [] OTHER -> appendTextValue(s, key, v, format)

appendKey(s, key) ==
    LET s1 == IF BufLen(s) > 0
              THEN [Write(s, <<attrSep>>) EXCEPT
                      !.bufStart = IF @ = sepNone THEN sepIncluded ELSE @]
              ELSE [s EXCEPT !.bufStart = IF @ = sepNone THEN sepSkipped ELSE @]
    IN  Write(appendString(s1, key, noFormat), <<"=">>)

Spaces(n) == [i \in 1..n |-> " "]

BufOf(s) == IF s.redirect = 0 THEN s.buf ELSE s.la[s.redirect]

SetLen(s, n) ==
    IF s.redirect = 0
    THEN [s EXCEPT !.buf = SubSeq(@, 1, n)]
    ELSE [s EXCEPT !.la[s.redirect] = SubSeq(@, 1, n)]

SetBuf(s, buf) ==
    IF s.redirect = 0
    THEN [s EXCEPT !.buf = buf]
    ELSE [s EXCEPT !.la[s.redirect] = buf]

\* The bytes of a value in the buffer: a level is in the buffer as its
\* name, every other value with a width to fit is there byte by byte.
valueBytes(v, appended) == IF v.kind = "Level" THEN LevelChars(v.level) ELSE appended

Max2(a, b) == IF a >= b THEN a ELSE b

\* appendFormatValue, lines 615-633: the loop over the code points of the
\* value.  st.i is the position in buf (from 0), st.n the code points
\* counted, st.sizes the ring of the last MaxWidth sizes (sizes[k] of the
\* code is st.sizes[k + 1]).
RECURSIVE countRunes(_, _, _, _)
countRunes(buf, format, quoted, st) ==
    IF st.i < Len(buf)
       /\ (st.n <= Max2(format.MinWidth, format.MaxWidth) \/ format.TruncFromStart)
    THEN LET size == DecodeRune(buf, st.i)
             i == st.i + size
             n == st.n + 1
             k == Len(st.sizes)
         IN  countRunes(buf, format, quoted,
                 [i |-> i,
                  n |-> n,
                  startPos |-> IF k > 0 /\ n > format.MaxWidth
                               THEN st.startPos + st.sizes[(n % k) + 1]
                               ELSE st.startPos,
                  sizes |-> IF k > 0 THEN [st.sizes EXCEPT ![(n % k) + 1] = size]
                            ELSE st.sizes,
                  cutPos |-> IF \/ format.MaxWidth >= 2 /\ ~quoted /\ n = format.MaxWidth - 1
                                \/ format.MaxWidth > 2 /\ quoted /\ n = format.MaxWidth - 2
                             THEN i
                             ELSE st.cutPos])
    ELSE st

\* A start that is not moved.
skipNothing(format, quoted, st) == st

\* Lines 635-640: startPos moves past the code points the marker and the
\* opening quote take the place of.
skipMarker(format, quoted, st) ==
    LET k == Len(st.sizes)
    IN  IF k > 0 /\ st.n > format.MaxWidth
        THEN [st EXCEPT !.startPos =
                 @ + st.sizes[((st.n + 1) % k) + 1]
                   + (IF quoted /\ k > 1 THEN st.sizes[((st.n + 2) % k) + 1] ELSE 0)]
        ELSE st

\* Lines 592-641: n, cutPos and startPos of the value that starts at pos.
measureValue(buf, pos, format, quoted) ==
    IF Max2(format.MinWidth, format.MaxWidth) > 0
    THEN skipMarker(format, quoted,
             countRunes(buf, format, quoted,
                 [i |-> pos, n |-> 0, startPos |-> pos, cutPos |-> pos,
                  sizes |-> IF format.TruncFromStart /\ format.MaxWidth > 0
                            THEN [j \in 1..format.MaxWidth |-> 0]
                            ELSE <<>>]))
    ELSE [i |-> pos, n |-> 0, startPos |-> pos, cutPos |-> pos, sizes |-> <<>>]

\* Lines 642-680: the value cut to MaxWidth code points.  The tail kept by
\* a cut from the start is copied before the marker is written over it, or
\* starts after the bytes the marker takes (lines 658-662): it is the same
\* bytes either way.
truncateValue(buf, pos, format, quoted, st) ==
    LET width == format.MaxWidth
    IN  IF width > 0 /\ st.n > width
        THEN [n |-> width,
              buf |-> IF format.TruncFromStart
                      THEN IF width = 1 THEN SubSeq(buf, 1, pos) \o Ellipsis
                           ELSE IF quoted /\ width = 2
                           THEN SubSeq(buf, 1, pos) \o Ellipsis \o Ellipsis
                           ELSE SubSeq(buf, 1, pos)
                                    \o (IF quoted THEN <<"\"">> ELSE <<>>) \o Ellipsis
                                    \o SubSeq(buf, st.startPos + 1, Len(buf))
                      ELSE SubSeq(buf, 1, st.cutPos)
                               \o (IF ~quoted THEN Ellipsis
                                   ELSE IF width = 1 THEN Ellipsis
                                   ELSE IF width = 2 THEN Ellipsis \o Ellipsis
                                   ELSE Ellipsis \o <<"\"">>)]
        ELSE [n |-> st.n, buf |-> buf]

\* Padding that is always put after the value.
padValueAfter(pos, format, t) ==
    IF format.MinWidth > t.n THEN t.buf \o Spaces(format.MinWidth - t.n) ELSE t.buf

\* Lines 681-691: the value padded with spaces to MinWidth code points.
padValue(pos, format, t) ==
    IF format.MinWidth > t.n
    THEN IF format.AlignRight
         THEN SubSeq(t.buf, 1, pos) \o Spaces(format.MinWidth - t.n)
                  \o SubSeq(t.buf, pos + 1, Len(t.buf))
         ELSE t.buf \o Spaces(format.MinWidth - t.n)
    ELSE t.buf

\* Lines 594-691, on the buffer buf that ends with the value appended at
\* pos.
fitValue(buf, pos, format, quoted) ==
    padValue(pos, format,
             truncateValue(buf, pos, format, quoted,
                           measureValue(buf, pos, format, quoted)))

\* The buffer after the value is fitted: as appendValue left it when no
\* byte of it is changed.
fitAppended(s1, buf, fitted) == IF fitted = buf THEN s1 ELSE SetBuf(s1, fitted)

fitBuffer(s1, pos, buf, format) ==
    fitAppended(s1, buf, fitValue(buf, pos, format, pos < Len(buf) /\ buf[pos + 1] = "\""))

appendFormatValue(s, key, v, format) ==
    fitBuffer(appendValue(s, key, v, format), BufLen(s),
              SubSeq(BufOf(s), 1, BufLen(s))
                  \o valueBytes(v, SubSeq(BufOf(appendValue(s, key, v, format)),
                                          BufLen(s) + 1,
                                          BufLen(appendValue(s, key, v, format)))),
              format)

\* The long name of every level.
shortLevelLong(l) == LevelString(l)

\* shortLevel: three letters for a canonical level, the first letter and
\* the signed offset for a level between them.
shortLevel(l) ==
    IF l = LevelDebug THEN "DBG"
    ELSE IF l < LevelInfo THEN Concat(<<"D">> \o SignedChars(l - LevelDebug))
    ELSE IF l = LevelInfo THEN "INF"
    ELSE IF l < LevelWarn THEN Concat(<<"I">> \o SignedChars(l - LevelInfo))
    ELSE IF l = LevelWarn THEN "WRN"
    ELSE IF l < LevelError THEN Concat(<<"W">> \o SignedChars(l - LevelWarn))
    ELSE IF l = LevelError THEN "ERR"
    ELSE Concat(<<"E">> \o SignedChars(l - LevelError))

\* An appendFormat that writes nothing for a maximum width of 0.
appendFormatNoPad(s, format, key, v) ==
    LET s1 == WriteString(s, format.Prefix)
        s2 == IF format.MaxWidth # 0 THEN appendFormatValue(s1, key, v, format) ELSE s1
        s3 == WriteString(s2, format.Suffix)
    IN  IF s3.bufStart = sepNone
           /\ (format.Prefix # "" \/ format.MaxWidth # 0 \/ format.Suffix # "")
        THEN [s3 EXCEPT !.bufStart = sepIncluded]
        ELSE s3

appendFormat(s, format, key, v) ==
    LET s1 == WriteString(s, format.Prefix)
        s2 == CASE format.MinWidth = 3 /\ format.MaxWidth = 3 /\ key = LevelKey ->
                     IF v.kind = "Level"
                     THEN WriteString(s1, shortLevel(v.level))
                     ELSE appendFormatValue(s1, key, v, format)
                [] format.MaxWidth # 0 -> appendFormatValue(s1, key, v, format)
                [] format.MinWidth > 0 -> Write(s1, Spaces(format.MinWidth))
                [] OTHER -> s1
        s3 == WriteString(s2, format.Suffix)
    IN  IF s3.bufStart = sepNone
           /\ (format.Prefix # "" \/ format.MinWidth > 0
               \/ format.MaxWidth # 0 \/ format.Suffix # "")
        THEN [s3 EXCEPT !.bufStart = sepIncluded]
        ELSE s3

\* s.prefix is the key prefix, kept as its components: a name, then
\* keyComponentSep, for every open group.
\* A group that is written as it is opened: its name goes to the buffer.
openGroupShown(s, name) ==
    [s EXCEPT !.prefix = @ \o <<name, keyComponentSep>>,
              !.groups = IF s.groupsNil THEN @ ELSE Append(@, name),
              !.buf = Append(@, name)]

openGroup(s, name) ==
    [s EXCEPT !.prefix = @ \o <<name, keyComponentSep>>,
              !.groups = IF s.groupsNil THEN @ ELSE Append(@, name)]

closeGroup(s, name) ==
    [s EXCEPT !.prefix = SubSeq(@, 1, Len(@) - 2),
              !.groups = IF s.groupsNil THEN @ ELSE SubSeq(@, 1, Len(@) - 1)]

\* The key alone, whatever groups are open.
keyUnqualified(s, k) == k

key(s, k) == IF Len(s.prefix) > 0 THEN Concat(s.prefix) \o k ELSE k

RECURSIVE appendAttr(_, _)
RECURSIVE appendAttrs(_, _)
RECURSIVE appendResolved(_, _)

\* a with its value resolved.
resolved(a) == Attr(a.Key, Resolve(a.Value))

appendAttrs(s, as) ==
    IF as = <<>> THEN s ELSE appendAttrs(appendAttr(s, Head(as)), Tail(as))

\* The attribute as ReplaceAttr leaves it; groups are not handed to it.
replaced(s, a0) ==
    IF s.h.opts.ReplaceAttr # ReplaceAttrNil /\ a0.Value.kind # "Group"
    THEN CallReplaceAttr(s.h.opts.ReplaceAttr,
                         IF s.groupsNil THEN <<>> ELSE s.groups, a0)
    ELSE a0

\* The value is resolved before ReplaceAttr sees it and again after.
appendAttr(s, given) ==
    appendResolved(s, resolved(replaced(s, resolved(given))))

appendResolved(s, a1) ==
        IF a1 = EmptyAttr THEN s
        ELSE IF a1.Value.kind = "Source" /\ isEmptySource(a1.Value.str) THEN s
        ELSE LET a == IF a1.Value.kind = "Source"
                      THEN Attr(a1.Key, StringValue(a1.Value.str))
                      ELSE a1
             IN  IF a.Value.kind = "Group"
                 THEN IF Len(a.Value.group) > 0
                      THEN IF a.Key # ""
                           THEN closeGroup(appendAttrs(openGroup(s, a.Key), a.Value.group),
                                           a.Key)
                           ELSE appendAttrs(s, a.Value.group)
                      ELSE s
                 ELSE LET k == key(s, a.Key)
                          i == layoutIndex(k, s.h.opts)
                          sr == IF i > 0
                                THEN [s EXCEPT !.la = buffer(s.la, i), !.redirect = i]
                                ELSE s
                          sw == IF k \in DOMAIN s.h.opts.Format
                                THEN appendFormat(sr, s.h.opts.Format[k], k, a.Value)
                                ELSE appendValue(appendKey(sr, k), k, a.Value, noFormat)
                      IN  IF i > 0
                          THEN [sw EXCEPT !.redirect = s.redirect,
                                          !.bufStart = s.bufStart]
                          ELSE sw

----------------------------------------------------------------------------
(* The handler                                                             *)

\* Nothing removed.
DedupNone(seq, seen) == seq

\* seq without the elements already seen, first occurrences kept, in order.
RECURSIVE Dedup(_, _)
Dedup(seq, seen) ==
    IF seq = <<>> THEN <<>>
    ELSE IF Head(seq) \in seen THEN Dedup(Tail(seq), seen)
    ELSE <<Head(seq)>> \o Dedup(Tail(seq), seen \cup {Head(seq)})

Range(seq) == {seq[i] : i \in 1..Len(seq)}

NewLayoutHandler(o) ==
    LET prefixKeys == Dedup(o.PrefixKeys, {MessageKey})
        suffixKeys == Dedup(o.SuffixKeys, {MessageKey} \cup Range(prefixKeys))
        opts == [o EXCEPT !.PrefixKeys = prefixKeys, !.SuffixKeys = suffixKeys]
    IN  [opts |-> opts,
         layoutAttrs |-> makeLayoutAttrs(opts),
         preformattedAttrs |-> <<>>,
         preformattedAttrsStart |-> sepNone,
         groups |-> <<>>,
         prefix |-> <<>>]

\* A handler is a value here, so the clone is the same value under a new
\* identity; mu and w, the fields clones share, are variables of the model.
clone(h) == h

WithAttrs(h, as) ==
    IF countEmptyGroups(as) = Len(as) THEN h
    ELSE LET h2 == clone(h)
             state == [newHandleState(h2, h2.layoutAttrs, h2.preformattedAttrs)
                          EXCEPT !.bufStart = h2.preformattedAttrsStart,
                                 !.prefix = h2.prefix]
             done == appendAttrs(state, as)
         IN  [h2 EXCEPT !.layoutAttrs = done.la,
                        !.preformattedAttrs = done.buf,
                        !.preformattedAttrsStart = done.bufStart]

WithGroup(h, name) ==
    IF name = "" THEN h
    ELSE LET h2 == clone(h)
         IN  [h2 EXCEPT !.groups = Append(@, name),
                        !.prefix = @ \o <<name, keyComponentSep>>]

\* A record: Time (ZeroTime or a time), Level, Message, Source (NoSource when
\* the PC is 0 or the location is unavailable), Attrs.
NumAttrs(r) == Len(r.Attrs)

\* Handle, lines 283-292: the state, with the built-ins outside any group.
handleBegin(h, r, layoutAttrs) ==
    [newHandleState(h, layoutAttrs, <<>>) EXCEPT !.groupsNil = TRUE]

\* Handle, lines 294-304.
handleTime(s, r) ==
    IF r.Time # ZeroTime
    THEN IF s.h.opts.ReplaceAttr = ReplaceAttrNil /\ TimeKey \notin DOMAIN s.h.opts.Format
         THEN appendTime(appendKey(s, TimeKey), TimeKey, r.Time)
         ELSE appendAttr(s, Attr(TimeKey, TimeValue(r.Time)))
    ELSE s

\* Handle, lines 305-313.
handleLevel(s, r) ==
    IF s.h.opts.ReplaceAttr = ReplaceAttrNil /\ LevelKey \notin DOMAIN s.h.opts.Format
    THEN appendString(appendKey(s, LevelKey), LevelString(r.Level), noFormat)
    ELSE appendAttr(s, Attr(LevelKey, LevelValue(r.Level)))

\* Handle, lines 314-321.
handleSource(s, r) ==
    IF s.h.opts.AddSource
    THEN appendAttr(s, Attr(SourceKey, SourceValue(r.Source)))
    ELSE s

\* Handle, lines 322-335.
handleMessage(s0, r) ==
    LET s == [s0 EXCEPT !.bufStart = sepNone, !.messagePos = Len(s0.buf)]
    IN  IF s.h.opts.ReplaceAttr = ReplaceAttrNil /\ MessageKey \notin DOMAIN s.h.opts.Format
        THEN appendString(appendKey(s, MessageKey), r.Message, noFormat)
        ELSE appendAttr(s, String(MessageKey, r.Message))

appendNonBuiltIns(s, r) ==
    LET pfa == s.h.preformattedAttrs
        s1 == IF Len(pfa) > 0
              THEN LET s0 == IF Len(s.buf) > 0 /\ s.h.preformattedAttrsStart = sepSkipped
                             THEN [Write(s, <<attrSep>>) EXCEPT
                                     !.bufStart = IF @ = sepNone THEN sepIncluded ELSE @]
                             ELSE [s EXCEPT
                                     !.bufStart = IF @ = sepNone
                                                  THEN s.h.preformattedAttrsStart ELSE @]
                   IN  Write(s0, pfa)
              ELSE s
    IN  IF NumAttrs(r) > 0
        THEN appendAttrs([s1 EXCEPT !.prefix = @ \o s.h.prefix], r.Attrs)
        ELSE s1

\* Handle, lines 337-338.
handleRest(s, r) ==
    appendNonBuiltIns(
        [s EXCEPT !.groupsNil = s.h.opts.ReplaceAttr = ReplaceAttrNil], r)

\* The slots keys[from..] of la (la[offset + i] is the slot of keys[i])
\* appended to buf, Handle lines 346-354 and 363-371.
RECURSIVE appendSlots(_, _, _, _, _, _)
appendSlots(buf, la, keys, offset, i, opts) ==
    IF i > Len(keys) THEN buf
    ELSE LET a == la[offset + i]
             b1 == IF Len(a) > 0
                   THEN (IF Len(buf) > 0 /\ keys[i] \notin DOMAIN opts.Format
                         THEN Append(buf, attrSep) ELSE buf) \o a
                   ELSE buf
         IN  appendSlots(b1, la, keys, offset, i + 1, opts)

\* Handle, lines 340-372: the line, assembled from the buffer and the slots.
handleAssemble(s) ==
    LET opts == s.h.opts
        buf == IF hasPrefix(s.la, opts)
               THEN LET b1 == appendSlots(SubSeq(s.buf, 1, s.messagePos), s.la,
                                          opts.PrefixKeys, 0, 1, opts)
                        b2 == IF Len(b1) > 0 /\ s.bufStart = sepSkipped
                              THEN Append(b1, attrSep) ELSE b1
                    IN  b2 \o SubSeq(s.buf, s.messagePos + 1, Len(s.buf))
               ELSE s.buf
    IN  Append(appendSlots(buf, s.la, opts.SuffixKeys, Len(opts.PrefixKeys), 1, opts),
               "\n")

\* The layoutAttrs a Handle call works on: the handler's own when the
\* record has no attributes, a clone otherwise (lines 284-288).
SharesLayoutAttrs(r) == NumAttrs(r) = 0

\* The fields rendered with the message ahead of the built-ins.
handleRenderMessageFirst(h, r) ==
    handleRest(handleSource(handleLevel(handleTime(handleMessage(
        handleBegin(h, r, h.layoutAttrs), r), r), r), r), r)

\* One Handle call run alone, up to the Write: the state before the line
\* is assembled.
handleRender(h, r) ==
    handleRest(handleMessage(handleSource(handleLevel(handleTime(
        handleBegin(h, r, h.layoutAttrs), r), r), r), r), r)

----------------------------------------------------------------------------
(* The format parser.  A format string is the sequence of its characters;  *)
(* a literal text that holds no '%' and no digit may stand as one of them, *)
(* and so may the digits of math.MaxInt and of math.MaxInt + 1.            *)

Digits == {"0", "1", "2", "3", "4", "5", "6", "7", "8", "9"}

DigitValue(d) ==
    CASE d = "0" -> 0 [] d = "1" -> 1 [] d = "2" -> 2 [] d = "3" -> 3 [] d = "4" -> 4
      [] d = "5" -> 5 [] d = "6" -> 6 [] d = "7" -> 7 [] d = "8" -> 8 [] d = "9" -> 9

\* math.MaxInt of a 64-bit int and the number after it.
MaxIntText == "9223372036854775807"
OverIntText == "9223372036854775808"

MaxIntDigits ==
    <<"9", "2", "2", "3", "3", "7", "2", "0", "3", "6",
      "8", "5", "4", "7", "7", "5", "8", "0", "7">>

OverIntDigits == [MaxIntDigits EXCEPT ![Len(MaxIntDigits)] = "8"]

\* What \d+ matches.
DigitRuns == Digits \cup {MaxIntText, OverIntText}

RECURSIVE DigitsOf(_)
DigitsOf(ds) ==
    IF ds = <<>> THEN <<>>
    ELSE (CASE Head(ds) = MaxIntText -> MaxIntDigits
            [] Head(ds) = OverIntText -> OverIntDigits
            [] OTHER -> <<Head(ds)>>) \o DigitsOf(Tail(ds))

\* A digit string without its leading zeros.
StripZeros(ds) ==
    LET nz == {i \in 1..Len(ds) : ds[i] # "0"}
    IN  IF nz = {} THEN <<"0">>
        ELSE SubSeq(ds, CHOOSE i \in nz : \A k \in nz : i <= k, Len(ds))

\* a <= b for two digit strings of one length.
DigitsLE(a, b) ==
    \/ a = b
    \/ \E i \in 1..Len(a) :
          /\ DigitValue(a[i]) < DigitValue(b[i])
          /\ \A k \in 1..(i - 1) : a[k] = b[k]

\* The number a digit string stands for is at most math.MaxInt.
FitsInt(ds) ==
    LET s == StripZeros(DigitsOf(ds))
    IN  \/ Len(s) < Len(MaxIntDigits)
        \/ Len(s) = Len(MaxIntDigits) /\ DigitsLE(s, MaxIntDigits)

\* The widths the model counts with: a width above it is kept as it, no
\* line of the model being that wide.
MaxWidthValue == 1000

RECURSIVE DigitsSum(_, _)
DigitsSum(ds, acc) ==
    IF ds = <<>> THEN acc ELSE DigitsSum(Tail(ds), acc * 10 + DigitValue(Head(ds)))

DigitsValue(ds) ==
    LET s == StripZeros(DigitsOf(ds))
    IN  IF Len(s) > 4 \/ DigitsSum(s, 0) > MaxWidthValue THEN MaxWidthValue
        ELSE DigitsSum(s, 0)

\* A conversion that reports no range error.
AtoiNoRange(ds) == [err |-> FALSE, val |-> DigitsValue(ds)]

\* strconv.Atoi on a string of digits: the number, or a range error.
Atoi(ds) == [err |-> ~FitsInt(ds), val |-> DigitsValue(ds)]

\* The index after the longest match of (?:[^%]+|%%)* that starts at i.
RECURSIVE litsEnd(_, _)
litsEnd(cs, i) ==
    IF i > Len(cs) THEN i
    ELSE IF cs[i] # "%" THEN litsEnd(cs, i + 1)
    ELSE IF i + 1 <= Len(cs) /\ cs[i + 1] = "%" THEN litsEnd(cs, i + 2)
    ELSE i

\* The index after the longest match of \d* that starts at i.
RECURSIVE digitsEnd(_, _)
digitsEnd(cs, i) ==
    IF i <= Len(cs) /\ cs[i] \in DigitRuns THEN digitsEnd(cs, i + 1) ELSE i

NoMatch == [ok |-> FALSE, ms |-> <<>>]

\* The index after the match of -? that starts at i.
minusEnd(cs, i) == IF i <= Len(cs) /\ cs[i] = "-" THEN i + 1 ELSE i

\* The submatches of a match whose '%' is at a, whose minimum width is
\* cs[c..d-1], whose maximum width (after a '.' at d) is cs[g..h-1] and
\* whose verb is at h; no match when h is no verb or when what follows it
\* is not literal text to the end.
reSubmatch(cs, a, c, d, g, h) ==
    LET n == Len(cs)
        hasMax == d < h
    IN  IF h <= n /\ cs[h] \in {"v", "s"} /\ litsEnd(cs, h + 1) > n
        THEN [ok |-> TRUE,
              ms |-> << SubSeq(cs, 1, a - 1),
                        SubSeq(cs, a, h),
                        SubSeq(cs, a + 1, c - 1),
                        SubSeq(cs, c, d - 1),
                        IF hasMax THEN SubSeq(cs, d, h - 1) ELSE <<>>,
                        IF hasMax THEN SubSeq(cs, d + 1, g - 1) ELSE <<>>,
                        IF hasMax THEN SubSeq(cs, g, h - 1) ELSE <<>>,
                        <<cs[h]>>,
                        SubSeq(cs, h + 1, n) >>]
        ELSE NoMatch

\* (\.(-?)(\d*))? at d, after the minimum width.
reMaxWidth(cs, a, c, d) ==
    IF d <= Len(cs) /\ cs[d] = "."
    THEN reSubmatch(cs, a, c, d, minusEnd(cs, d + 1), digitsEnd(cs, minusEnd(cs, d + 1)))
    ELSE reSubmatch(cs, a, c, d, d, d)

\* (-?)(\d*) at a + 1, after the '%' at a.
reMinWidth(cs, a, c) == reMaxWidth(cs, a, c, digitsEnd(cs, c))

\* What follows the literal text that ends before a: nothing, or the one
\* directive and literal text again.
reDirective(cs, a) ==
    IF a > Len(cs)
    THEN [ok |-> TRUE, ms |-> <<cs, <<>>, <<>>, <<>>, <<>>, <<>>, <<>>, <<>>, <<>> >>]
    ELSE reMinWidth(cs, a, minusEnd(cs, a + 1))

\* reAttrFormat.FindStringSubmatch: the submatches ms[1..9], or no match.
\* The expression matches a string in one way only, so that what a group
\* takes is what its greedy match takes.
reAttrFormat(cs) == reDirective(cs, litsEnd(cs, 1))

\* strings.ReplaceAll(s, "%%", "%") on a match of (?:[^%]+|%%)*.
RECURSIVE unescape(_)
\* A ReplaceAll that replaces nothing.
unescapeNothing(cs) == cs

unescape(cs) ==
    IF cs = <<>> THEN <<>>
    ELSE IF Head(cs) = "%" /\ Len(cs) > 1 /\ cs[2] = "%"
    THEN <<"%">> \o unescape(Tail(Tail(cs)))
    ELSE <<Head(cs)>> \o unescape(Tail(cs))

panic(text, cs) ==
    [state |-> "panic", msg |-> text \o <<": ", Concat(cs)>>, af |-> noFormat]

\* parseAttrFormat after the match: m is what FindStringSubmatch returned.
parseSubmatch(cs, m) ==
    LET prefix == m.ms[1]
        hasVerb == m.ms[2] # <<>>
        alignLeft == m.ms[3] = <<"-">>
        minWidth == m.ms[4]
        hasMaxWidth == m.ms[5] # <<>>
        truncFromStart == m.ms[6] = <<"-">>
        maxWidth == m.ms[7]
        verb == m.ms[8]
        suffix == m.ms[9]
    IN  IF ~m.ok THEN panic(<<"slogx: invalid attr format">>, cs)
        ELSE IF minWidth # <<>> /\ Atoi(minWidth).err
        THEN panic(<<"slogx: invalid attr format", " (min width)">>, cs)
        ELSE IF maxWidth # <<>> /\ Atoi(maxWidth).err
        THEN panic(<<"slogx: invalid attr format", " (max width)">>, cs)
        ELSE [state |-> "parsed", msg |-> <<>>,
              af |-> [Prefix |-> Concat(unescape(prefix)),
                      Suffix |-> Concat(unescape(suffix)),
                      MinWidth |-> IF minWidth # <<>> THEN Atoi(minWidth).val ELSE 0,
                      MaxWidth |-> IF ~hasVerb THEN 0
                                   ELSE IF maxWidth # <<>> THEN Atoi(maxWidth).val
                                   ELSE IF hasMaxWidth THEN 0
                                   ELSE -1,
                      AlignRight |-> ~alignLeft,
                      TruncFromStart |-> truncFromStart,
                      SkipQuote |-> verb = <<"s">>]]

parseAttrFormat(cs) == parseSubmatch(cs, reAttrFormat(cs))

\* The formats of a map after its first: parsed when the first is.
parsedThen(first, rest) ==
    IF first.state = "panic" THEN first
    ELSE IF rest.state = "panic" THEN rest
    ELSE [state |-> "parsed", msg |-> <<>>, af |-> <<first.af>> \o rest.af]

\* parseAttrFormatMap: the formats parsed in the order the map gives them;
\* the first panic ends it.
RECURSIVE parseAttrFormatMap(_)
parseAttrFormatMap(m) ==
    IF m = <<>> THEN [state |-> "parsed", msg |-> <<>>, af |-> <<>>]
    ELSE parsedThen(parseAttrFormat(Head(m)), parseAttrFormatMap(Tail(m)))

----------------------------------------------------------------------------
(* Inputs: the options, attribute lists and records the model draws from   *)

MaxHandlers == 3

\* What parseAttrFormat returns for "", "%v", "%s" and "<literal>%v".
\* The formats "", "%v", "%s" and lit followed by "%v", parsed.
FormatRemove == parseAttrFormat(<<>>).af
FormatV == parseAttrFormat(<<"%", "v">>).af
FormatS == parseAttrFormat(<<"%", "s">>).af
FormatLit(lit) == parseAttrFormat(<<lit, "%", "v">>).af

\* A format without a verb: literal text, "%%" for a '%'.
FormatHide(cs) == parseAttrFormat(cs).af

NoFormats == [k \in {} |-> noFormat]

Options(addSource, rep, format, prefixKeys, suffixKeys) ==
    [AddSource |-> addSource, ReplaceAttr |-> rep, Format |-> format,
     PrefixKeys |-> prefixKeys, SuffixKeys |-> suffixKeys]

OptsDefault == Options(FALSE, ReplaceAttrNil, NoFormats, <<>>, <<>>)
OptsSource == Options(TRUE, ReplaceAttrNil, NoFormats, <<>>, <<>>)
OptsLayout ==
    Options(FALSE, ReplaceAttrNil, NoFormats,
            <<"p", "g.p", MessageKey, "p">>, <<"s", "p", "s">>)
OptsLayoutFormat ==
    Options(FALSE, ReplaceAttrNil,
            (TimeKey :> FormatRemove) @@ (LevelKey :> FormatRemove)
                @@ ("g.p" :> FormatLit(" G.p=")) @@ ("s" :> FormatLit(" S=")),
            <<"g.p", "p">>, <<"s">>)
OptsTimeFirst ==
    Options(FALSE, ReplaceAttrNil, (TimeKey :> FormatV), <<TimeKey, "p">>, <<>>)
OptsBuiltinsMoved ==
    Options(FALSE, ReplaceAttrNil, NoFormats, <<TimeKey, "p">>, <<LevelKey>>)
OptsReplace == Options(FALSE, "removeTime", NoFormats, <<>>, <<>>)
OptsBare ==
    Options(FALSE, ReplaceAttrNil,
            (TimeKey :> FormatRemove) @@ (LevelKey :> FormatRemove)
                @@ (MessageKey :> FormatS) @@ ("a" :> FormatS),
            <<"p">>, <<>>)

\* The values of "s" and of "g" are hidden, the time is removed.
OptsRedact ==
    Options(FALSE, ReplaceAttrNil,
            (TimeKey :> FormatRemove) @@ ("s" :> FormatHide(<<" s=REDACTED">>))
                @@ ("g" :> FormatHide(<<" g=", "%", "%">>)),
            <<>>, <<>>)

Configs ==
    {OptsDefault, OptsSource, OptsLayout, OptsLayoutFormat,
     OptsTimeFirst, OptsBuiltinsMoved, OptsReplace, OptsBare, OptsRedact}

WithAttrLists ==
    { <<String("p", "1")>>,
      <<String("a", ""), Group("e", <<>>), String("s", "1")>>,
      <<Group("e", <<>>)>>,
      <<>> }

GroupNames == {"g", ""}

Record(t, msg, src, as) ==
    [Time |-> t, Level |-> LevelInfo, Message |-> msg, Source |-> src, Attrs |-> as]

Records ==
    { Record("T1", "m", "f.go:1", <<>>),
      Record(ZeroTime, "m", NoSource, <<>>),
      Record(ZeroTime, "", NoSource, <<String("a", "")>>),
      Record("T1", "m", NoSource,
             <<String("s", "2"), String("a", "2"), String("p", "2"), String("p", "4")>>),
      Record("T1", "", "f.go:1",
             <<Group("g", <<String("p", "5")>>), Group("p", <<Group("e", <<>>)>>),
               String("a", "3")>>) }

Unlocked == "unlocked"

NotParsed == [state |-> "none", msg |-> <<>>]

NoWrite == [line |-> <<>>, h |-> 0, r |-> Record(ZeroTime, "", NoSource, <<>>)]

----------------------------------------------------------------------------
(* The sequential machine: handlers are derived and records handled, one   *)
(* call at a time.                                                         *)

Init ==
    /\ \E o \in Configs : handlers = <<NewLayoutHandler(o)>>
    /\ parent = <<0>>
    /\ hist = << <<>> >>
    /\ w = NoWrite
    /\ mu = Unlocked
    /\ calls = <<>>
    /\ fmtIn = <<>>
    /\ fmtOut = NotParsed

\* The handler a With call returns is a new LayoutHandler value (clone,
\* line 229): it gets an identity of its own.
\* A derivation that changes the receiver.
storeInPlace(hs, i, h2) == [hs EXCEPT ![i] = h2]

\* clone: the derived handler is a new object, the receiver is left alone.
storeClone(hs, i, h2) == Append(hs, h2)

\* What a WithAttrs call does to the handlers: nothing when every attribute
\* is an empty group (the receiver is returned), else a clone is added.
WithAttrsStep(i, as) ==
    IF countEmptyGroups(as) = Len(as)
    THEN UNCHANGED <<handlers, parent, hist>>
    ELSE /\ Len(hist) < MaxHandlers
         /\ handlers' = storeClone(handlers, i, WithAttrs(handlers[i], as))
         /\ parent' = Append(parent, i)
         /\ hist' = Append(hist, Append(hist[i], [op |-> "attrs", as |-> as, name |-> ""]))

\* What a WithGroup call does to the handlers.
WithGroupStep(i, name) ==
    IF name = ""
    THEN UNCHANGED <<handlers, parent, hist>>
    ELSE /\ Len(hist) < MaxHandlers
         /\ handlers' = storeClone(handlers, i, WithGroup(handlers[i], name))
         /\ parent' = Append(parent, i)
         /\ hist' = Append(hist, Append(hist[i], [op |-> "group", as |-> <<>>, name |-> name]))

DoWithAttrs(i, as) ==
    /\ WithAttrsStep(i, as)
    /\ UNCHANGED <<w, mu, calls, fmtIn, fmtOut>>

DoWithGroup(i, name) ==
    /\ WithGroupStep(i, name)
    /\ UNCHANGED <<w, mu, calls, fmtIn, fmtOut>>

\* Handle run to completion: the line is rendered, assembled and written.
\* With a record without attributes the slots written are the handler's.
DoHandle(i, r) ==
    LET s == handleRender(handlers[i], r)
    IN  /\ handlers' = IF SharesLayoutAttrs(r)
                       THEN [handlers EXCEPT ![i].layoutAttrs = s.la]
                       ELSE handlers
        /\ w' = [line |-> handleAssemble(s), h |-> i, r |-> r]
        /\ UNCHANGED <<parent, hist, mu, calls, fmtIn, fmtOut>>

Next ==
    \/ \E i \in 1..Len(handlers), as \in WithAttrLists : DoWithAttrs(i, as)
    \/ \E i \in 1..Len(handlers), name \in GroupNames : DoWithGroup(i, name)
    \/ \E i \in 1..Len(handlers), r \in Records : DoHandle(i, r)

Spec == Init /\ [][Next]_vars

----------------------------------------------------------------------------
(* The concurrent machine: goroutines call Handle on a handler and on a    *)
(* handler derived from it, and their steps interleave.  A call works on   *)
(* its own handleState and buffer; its layoutAttrs are the handler's own   *)
(* when the record has no attributes (Handle, lines 284-288).  The built-  *)
(* in fields, the rest, the assembly, the Lock, the Write and the Unlock   *)
(* are steps of their own.                                                 *)

Goroutines == {"g1", "g2"}

OptsSourceLast == Options(TRUE, ReplaceAttrNil, NoFormats, <<"p">>, <<SourceKey>>)

ConcConfigs == {OptsDefault, OptsTimeFirst, OptsSourceLast}

\* Every record has a time and a source, so that a call fills every slot
\* of a built-in key it reads.
ConcRecords ==
    { Record("T1", "m", "f.go:1", <<>>),
      Record("T2", "m", "f.go:2", <<>>),
      Record("T1", "m", "f.go:1", <<String("p", "2")>>) }

NoCall == [pc |-> "idle", h |-> 0, r |-> NoWrite.r, s |-> <<>>, line |-> <<>>, nwrites |-> 0]

ConcNoWrite == [line |-> <<>>, h |-> 0, r |-> NoWrite.r, g |-> "", done |-> TRUE]

InitConc ==
    /\ \E o \in ConcConfigs :
         LET h == NewLayoutHandler(o)
         IN  \/ /\ handlers = <<h, WithAttrs(h, <<String("p", "1")>>)>>
                /\ hist = << <<>>, <<[op |-> "attrs", as |-> <<String("p", "1")>>, name |-> ""]>> >>
             \/ /\ handlers = <<h, WithGroup(h, "g")>>
                /\ hist = << <<>>, <<[op |-> "group", as |-> <<>>, name |-> "g"]>> >>
    /\ parent = <<0, 1>>
    /\ w = ConcNoWrite
    /\ mu = Unlocked
    /\ calls = [g \in Goroutines |-> NoCall]
    /\ fmtIn = <<>>
    /\ fmtOut = NotParsed

\* The handleState of a call as the call finds it: the slots are the
\* handler's, as they are now, when the call did not clone them.
callState(c) ==
    IF SharesLayoutAttrs(c.r)
    THEN [c.s EXCEPT !.la = handlers[c.h].layoutAttrs]
    ELSE c.s

\* A Lock that does not wait.
mutexIgnored(m) == TRUE

\* sync.Mutex.Lock returns when no goroutine holds the mutex.
mutexFree(m) == m = Unlocked

\* Handle is entered: lines 283-292.
ConcBegin(g, i, r) ==
    /\ calls[g].pc = "idle"
    /\ calls' = [calls EXCEPT ![g] =
                    [pc |-> "time", h |-> i, r |-> r,
                     s |-> handleBegin(handlers[i], r, handlers[i].layoutAttrs),
                     line |-> <<>>, nwrites |-> 0]]
    /\ UNCHANGED <<handlers, parent, hist, w, mu, fmtIn, fmtOut>>

\* A rendering step of a call leaves it with state s at pc to; the slots
\* it wrote are the handler's when the call did not clone them.
ConcStep(g, s, to) ==
    /\ calls' = [calls EXCEPT ![g].s = s, ![g].pc = to]
    /\ handlers' = IF SharesLayoutAttrs(calls[g].r)
                   THEN [handlers EXCEPT ![calls[g].h].layoutAttrs = s.la]
                   ELSE handlers
    /\ UNCHANGED <<parent, hist, w, mu, fmtIn, fmtOut>>

ConcTime(g) ==
    /\ calls[g].pc = "time"
    /\ ConcStep(g, handleTime(callState(calls[g]), calls[g].r), "level")

ConcLevel(g) ==
    /\ calls[g].pc = "level"
    /\ ConcStep(g, handleLevel(callState(calls[g]), calls[g].r), "source")

ConcSource(g) ==
    /\ calls[g].pc = "source"
    /\ ConcStep(g, handleSource(callState(calls[g]), calls[g].r), "message")

ConcMessage(g) ==
    /\ calls[g].pc = "message"
    /\ ConcStep(g, handleMessage(callState(calls[g]), calls[g].r), "rest")

ConcRest(g) ==
    /\ calls[g].pc = "rest"
    /\ ConcStep(g, handleRest(callState(calls[g]), calls[g].r), "assemble")

\* Lines 340-372: the line is assembled from the buffer and the slots.
ConcAssemble(g) ==
    /\ calls[g].pc = "assemble"
    /\ calls' = [calls EXCEPT ![g].line = handleAssemble(callState(calls[g])),
                              ![g].pc = "lock"]
    /\ UNCHANGED <<handlers, parent, hist, w, mu, fmtIn, fmtOut>>

\* Line 374: h.mu.Lock().
ConcLock(g) ==
    /\ calls[g].pc = "lock"
    /\ mutexFree(mu)
    /\ mu' = g
    /\ calls' = [calls EXCEPT ![g].pc = "write"]
    /\ UNCHANGED <<handlers, parent, hist, w, fmtIn, fmtOut>>

\* Line 376: h.w.Write(*buf) starts; the sink has a part of the line.
ConcWriteBegin(g) ==
    /\ calls[g].pc = "write"
    /\ w' = [line |-> SubSeq(calls[g].line, 1, Len(calls[g].line) - 1),
             h |-> calls[g].h, r |-> calls[g].r, g |-> g, done |-> FALSE]
    /\ calls' = [calls EXCEPT ![g].pc = "writing", ![g].nwrites = @ + 1]
    /\ UNCHANGED <<handlers, parent, hist, mu, fmtIn, fmtOut>>

\* Line 376: the Write returns; the sink has the rest of what it was
\* given.
ConcWriteEnd(g) ==
    /\ calls[g].pc = "writing"
    /\ w' = [w EXCEPT !.line = @ \o SubSeq(calls[g].line, Len(calls[g].line), Len(calls[g].line)),
                      !.done = TRUE]
    /\ calls' = [calls EXCEPT ![g].pc = "unlock"]
    /\ UNCHANGED <<handlers, parent, hist, mu, fmtIn, fmtOut>>

\* Line 375: the deferred h.mu.Unlock(), and the return.  What the sink
\* was given is looked at while its writer is in the call, not after.
ConcUnlock(g) ==
    /\ calls[g].pc = "unlock"
    /\ mu' = Unlocked
    /\ calls' = [calls EXCEPT ![g] = NoCall]
    /\ w' = ConcNoWrite
    /\ UNCHANGED <<handlers, parent, hist, fmtIn, fmtOut>>

NextConc ==
    \/ \E g \in Goroutines, i \in 1..Len(handlers), r \in ConcRecords : ConcBegin(g, i, r)
    \/ \E g \in Goroutines : ConcTime(g)
    \/ \E g \in Goroutines : ConcLevel(g)
    \/ \E g \in Goroutines : ConcSource(g)
    \/ \E g \in Goroutines : ConcMessage(g)
    \/ \E g \in Goroutines : ConcRest(g)
    \/ \E g \in Goroutines : ConcAssemble(g)
    \/ \E g \in Goroutines : ConcLock(g)
    \/ \E g \in Goroutines : ConcWriteBegin(g)
    \/ \E g \in Goroutines : ConcWriteEnd(g)
    \/ \E g \in Goroutines : ConcUnlock(g)

SpecConc == InitConc /\ [][NextConc]_vars

----------------------------------------------------------------------------
(* The sink that can fail: h.w.Write returns an error or nil, and Handle   *)
(* returns what Write returned (lines 374-377).  A call renders its line,  *)
(* locks, writes once, and its deferred Unlock runs as it returns.         *)

WriteErrors == {"nil", "EIO"}

NoSinkCall ==
    [pc |-> "idle", h |-> 0, r |-> NoWrite.r, line |-> <<>>, nwrites |-> 0,
     err |-> "", ret |-> ""]

InitSink ==
    /\ \E o \in ConcConfigs :
         LET h == NewLayoutHandler(o)
         IN  \/ /\ handlers = <<h, WithAttrs(h, <<String("p", "1")>>)>>
                /\ hist = << <<>>, <<[op |-> "attrs", as |-> <<String("p", "1")>>, name |-> ""]>> >>
             \/ /\ handlers = <<h, WithGroup(h, "g")>>
                /\ hist = << <<>>, <<[op |-> "group", as |-> <<>>, name |-> "g"]>> >>
    /\ parent = <<0, 1>>
    /\ w = ConcNoWrite
    /\ mu = Unlocked
    /\ calls = [g \in Goroutines |-> NoSinkCall]
    /\ fmtIn = <<>>
    /\ fmtOut = NotParsed

\* An Unlock that runs only after a Write that returned nil.
unlockOnSuccess(m, err) == IF err = "nil" THEN Unlocked ELSE m

\* Line 375: defer h.mu.Unlock() runs whatever Write returned.
deferredUnlock(m, err) == Unlocked

\* Lines 283-373: the line of the record is rendered into the call's
\* own buffer.
SinkRender(g, i, r) ==
    /\ calls[g].pc = "idle"
    /\ LET s == handleRender(handlers[i], r)
       IN  /\ handlers' = IF SharesLayoutAttrs(r)
                          THEN [handlers EXCEPT ![i].layoutAttrs = s.la]
                          ELSE handlers
           /\ calls' = [calls EXCEPT ![g] =
                           [pc |-> "lock", h |-> i, r |-> r, line |-> handleAssemble(s),
                            nwrites |-> 0, err |-> "", ret |-> ""]]
    /\ UNCHANGED <<parent, hist, w, mu, fmtIn, fmtOut>>

\* Line 374: h.mu.Lock().
SinkLock(g) ==
    /\ calls[g].pc = "lock"
    /\ mutexFree(mu)
    /\ mu' = g
    /\ calls' = [calls EXCEPT ![g].pc = "write"]
    /\ UNCHANGED <<handlers, parent, hist, w, fmtIn, fmtOut>>

\* Line 376: _, err := h.w.Write(*buf).  A sink that fails has taken
\* none of the line or all of it.
SinkWrite(g, err, taken) ==
    /\ calls[g].pc = "write"
    /\ err = "nil" => taken
    /\ w' = [line |-> IF taken THEN calls[g].line ELSE <<>>,
             h |-> calls[g].h, r |-> calls[g].r, g |-> g, done |-> TRUE]
    /\ calls' = [calls EXCEPT ![g].pc = "return", ![g].nwrites = @ + 1, ![g].err = err]
    /\ UNCHANGED <<handlers, parent, hist, mu, fmtIn, fmtOut>>

\* Lines 375 and 377: return err, and the deferred Unlock.
SinkReturn(g) ==
    /\ calls[g].pc = "return"
    /\ mu' = deferredUnlock(mu, calls[g].err)
    /\ calls' = [calls EXCEPT ![g].pc = "idle", ![g].ret = calls[g].err]
    /\ UNCHANGED <<handlers, parent, hist, w, fmtIn, fmtOut>>

NextSink ==
    \/ \E g \in Goroutines, i \in 1..Len(handlers), r \in ConcRecords : SinkRender(g, i, r)
    \/ \E g \in Goroutines : SinkLock(g)
    \/ \E g \in Goroutines, err \in WriteErrors, taken \in BOOLEAN : SinkWrite(g, err, taken)
    \/ \E g \in Goroutines : SinkReturn(g)

SpecSink == InitSink /\ [][NextSink]_vars

----------------------------------------------------------------------------
(* Construction: NewLayoutHandler is given a Format map and parses it.     *)

MaxFmtLen == 4

\* What a format string is put together from.
FmtPieces ==
    { <<"%">>, <<"-">>, <<".">>, <<"v">>, <<"s">>, <<"x">>, <<"7">>, <<OverIntText>> }

RECURSIVE PieceStrings(_)
PieceStrings(n) ==
    IF n = 0 THEN { <<>> }
    ELSE LET shorter == PieceStrings(n - 1)
         IN  shorter \cup { s \o p : s \in shorter, p \in FmtPieces }

\* Longer formats, with all the parts of a directive or one part too many.
LongFormats ==
    { <<" ", "%", "-", "1", "0", ".", "8", "v">>,
      <<"%", "-", "7", ".", "-", "7", "s", "%", "%", "x">>,
      <<"%", "%", "x", "%", "3", ".", "3", "s", "]">>,
      <<"%", "1", ".", "2", ".", "3", "s">>,
      <<"%", "-", "-", "1", "s">>,
      <<"%", ".", "-", "-", "1", "s">>,
      <<"%", "1", ",", "2", "s">>,
      <<"%", "+", "s">>,
      <<"%", "q">>,
      <<"%", MaxIntText, "s">>,
      <<"%", ".", "0", MaxIntText, "v">>,
      <<"%", "0", OverIntText, "v">>,
      <<"%", "9", MaxIntText, "v">>,
      <<"%", "7", ".", OverIntText, "s">>,
      <<"%", OverIntText, ".", OverIntText, "v">> }

Formats == PieceStrings(MaxFmtLen) \cup LongFormats

\* The Format maps: none, one format alone, or one next to a valid one
\* that the map gives before or after it.
FormatMaps ==
    { <<>> } \cup { <<f>> : f \in Formats }
        \cup { <<f, <<"%", "v">> >> : f \in Formats }
        \cup { << <<"%", "s">>, f >> : f \in Formats }

InitFormat ==
    /\ fmtIn \in FormatMaps
    /\ fmtOut = NotParsed
    /\ handlers = <<>>
    /\ parent = <<>>
    /\ hist = <<>>
    /\ w = NoWrite
    /\ mu = Unlocked
    /\ calls = <<>>

\* The Format option of the handler: the key of the i-th format is "k"i.
FormatKeys == <<"k1", "k2">>

FormatOf(afs) == [k \in {FormatKeys[i] : i \in 1..Len(afs)} |->
                    afs[CHOOSE i \in 1..Len(afs) : FormatKeys[i] = k]]

\* NewLayoutHandler (src/layout_handler.go): the formats are parsed, then
\* the handler is made; a panic leaves no handler.
DoNewLayoutHandler ==
    /\ fmtOut.state = "none"
    /\ \E parsed \in {parseAttrFormatMap(fmtIn)} :
           IF parsed.state = "panic"
           THEN /\ fmtOut' = [state |-> "panic", msg |-> parsed.msg]
                /\ UNCHANGED <<handlers, parent, hist>>
           ELSE /\ fmtOut' = [state |-> "returned", msg |-> <<>>]
                /\ handlers' = <<NewLayoutHandler(
                                   Options(FALSE, ReplaceAttrNil, FormatOf(parsed.af),
                                           <<>>, <<>>))>>
                /\ parent' = <<0>>
                /\ hist' = << <<>> >>
    /\ UNCHANGED <<w, mu, calls, fmtIn>>

NextFormat == DoNewLayoutHandler

SpecFormat == InitFormat /\ [][NextFormat]_vars

----------------------------------------------------------------------------
(* Attributes that do not render as they are: values whose text conversion *)
(* fails.  The machine is the sequential one, with options, attribute      *)
(* lists and records of its own.                                           *)

\* "x" has a Format and a prefix slot, "y" a suffix slot.
OptsSlotted ==
    Options(FALSE, ReplaceAttrNil, ("x" :> FormatS) @@ ("g.z" :> FormatLit(" Z=")),
            <<"x">>, <<"y">>)

AttrConfigs == {OptsDefault, OptsSlotted}

AttrLists ==
    { <<Attr("x", PanicValue("boom")), String("a", "1")>>,
      <<Attr("y", ErrorValue("bad"))>> }

AttrRecords ==
    { Record("T1", "m", NoSource, <<>>),
      Record("T1", "m", NoSource,
             <<Attr("y", NilPointerValue), String("x", "2"),
               Attr("z", ErrorValue("bad")), String("a", "3")>>),
      Record(ZeroTime, "m", NoSource,
             <<Attr("x", NilPointerValue),
               Group("n", <<Attr("z", PanicValue("boom"))>>),
               Attr("y", PanicValue("boom"))>>) }

InitAttrs ==
    /\ \E o \in AttrConfigs : handlers = <<NewLayoutHandler(o)>>
    /\ parent = <<0>>
    /\ hist = << <<>> >>
    /\ w = NoWrite
    /\ mu = Unlocked
    /\ calls = <<>>
    /\ fmtIn = <<>>
    /\ fmtOut = NotParsed

NextAttrs ==
    \/ \E i \in 1..Len(handlers), as \in AttrLists : DoWithAttrs(i, as)
    \/ \E i \in 1..Len(handlers) : DoWithGroup(i, "g")
    \/ \E i \in 1..Len(handlers), r \in AttrRecords : DoHandle(i, r)

SpecAttrs == InitAttrs /\ [][NextAttrs]_vars

----------------------------------------------------------------------------
(* Handlers with a ReplaceAttr callback.                                   *)

OptsRewrite ==
    Options(FALSE, "rewrite", ("x" :> FormatLit(" X=")) @@ ("g.n.b" :> FormatLit(" B=")),
            <<"x">>, <<"y", "g.y">>)

OptsShowGroups ==
    Options(FALSE, "showGroups", ("g.n.b" :> FormatLit(" B=")), <<"g.a">>, <<>>)

ReplaceConfigs == {OptsRewrite, OptsShowGroups}

ReplaceLists ==
    { <<String("r", "1"), String("y", "1")>>,
      <<Group("n", <<String("u", "2"), String("d", "3")>>), String("i", "4")>> }

ReplaceRecords ==
    { Record("T1", "m", NoSource, <<>>),
      Record("T1", "m", NoSource,
             <<String("y", "0"), String("a", "5"), String("r", "6"), String("y", "9")>>),
      Record(ZeroTime, "m", NoSource,
             <<Group("e", <<String("d", "1")>>),
               Group("n", <<Group("m", <<String("b", "1")>>), String("a", "2")>>),
               String("u", "7"), String("y", "0"), Attr("v", LogValuerValue("3"))>>) }

InitReplace ==
    /\ \E o \in ReplaceConfigs : handlers = <<NewLayoutHandler(o)>>
    /\ parent = <<0>>
    /\ hist = << <<>> >>
    /\ w = NoWrite
    /\ mu = Unlocked
    /\ calls = <<>>
    /\ fmtIn = <<>>
    /\ fmtOut = NotParsed

NextReplace ==
    \/ \E i \in 1..Len(handlers), as \in ReplaceLists : DoWithAttrs(i, as)
    \/ \E i \in 1..Len(handlers) : DoWithGroup(i, "g")
    \/ \E i \in 1..Len(handlers), r \in ReplaceRecords : DoHandle(i, r)

SpecReplace == InitReplace /\ [][NextReplace]_vars

----------------------------------------------------------------------------
(* GroupOrAttrs (src/unnamed/part_001): the chain of WithAttrs and         *)
(* WithGroup calls.  The nodes allocated so far are in handlers; a         *)
(* *GroupOrAttrs is the index of its node, and nil is 0.                   *)

nilGoa == 0

\* &GroupOrAttrs{}: the zero value.
zeroGoa == [group |-> "", attrs |-> <<>>, total |-> 0, prev |-> nilGoa]

\* GroupOrAttrs.Total
goaTotal(heap, g) == IF g = nilGoa THEN 0 ELSE heap[g].total

\* A WithAttrs that has no case for a list that adds nothing.
goaWithAttrsAlways(heap, g, as) ==
    LET prev == IF goaTotal(heap, g) = 0 THEN nilGoa ELSE g
    IN  [heap |-> Append(heap, [group |-> "", attrs |-> as,
                                total |-> goaTotal(heap, prev) + Len(as),
                                prev |-> prev]),
         ret |-> Len(heap) + 1]

\* GroupOrAttrs.WithAttrs: the heap after the call and the pointer
\* returned.
goaWithAttrs(heap, g, as) ==
    IF countEmptyGroups(as) = Len(as) THEN [heap |-> heap, ret |-> g]
    ELSE LET prev == IF goaTotal(heap, g) = 0 THEN nilGoa ELSE g
         IN  [heap |-> Append(heap, [group |-> "", attrs |-> as,
                                     total |-> goaTotal(heap, prev) + Len(as),
                                     prev |-> prev]),
              ret |-> Len(heap) + 1]

\* GroupOrAttrs.WithGroup
goaWithGroup(heap, g, name) ==
    IF name = "" THEN [heap |-> heap, ret |-> g]
    ELSE LET prev == IF goaTotal(heap, g) = 0 THEN nilGoa ELSE g
         IN  [heap |-> Append(heap, [group |-> name, attrs |-> <<>>,
                                     total |-> goaTotal(heap, prev) + 1,
                                     prev |-> prev]),
              ret |-> Len(heap) + 1]

\* GroupOrAttrs.reverse: copies of the nodes from g back to the first,
\* each with its group or its attrs.
RECURSIVE reverseFrom(_, _)
reverseFrom(heap, cur) ==
    IF cur = nilGoa THEN <<>>
    ELSE <<[group |-> heap[cur].group,
            attrs |-> IF heap[cur].group # "" THEN <<>> ELSE heap[cur].attrs]>>
             \o reverseFrom(heap, heap[cur].prev)

reverse(heap, g) == IF goaTotal(heap, g) = 0 THEN <<>> ELSE reverseFrom(heap, g)

\* What All yields for one node: the group name with an empty Attr, or
\* every attr with an empty name.
yieldNode(cur) ==
    IF cur.group # "" THEN <<[group |-> cur.group, attr |-> EmptyAttr]>>
    ELSE [j \in 1..Len(cur.attrs) |-> [group |-> "", attr |-> cur.attrs[j]]]

\* GroupOrAttrs.All, run to its end: what it yields, in order.
RECURSIVE yieldFrom(_, _)
yieldFrom(rev, i) ==
    IF i = 0 THEN <<>> ELSE yieldNode(rev[i]) \o yieldFrom(rev, i - 1)

goaAll(heap, g) == yieldFrom(reverse(heap, g), Len(reverse(heap, g)))

MaxNodes == 4

ChainLists ==
    { <<String("a", "1")>>,
      <<Group("e", <<>>), String("b", "2")>>,
      <<Group("e", <<>>)>>,
      <<>> }

ChainNames == {"g", ""}

NoWithCall == [recv |-> nilGoa, op |-> "none", as |-> <<>>, name |-> "", ret |-> nilGoa]

InitChain ==
    /\ handlers = <<zeroGoa>>
    /\ parent = <<nilGoa>>
    /\ hist = << <<>> >>
    /\ w = NoWithCall
    /\ mu = Unlocked
    /\ calls = <<>>
    /\ fmtIn = <<>>
    /\ fmtOut = NotParsed

\* The calls that made the chain g.
HistOf(g) == IF g = nilGoa THEN <<>> ELSE hist[g]

\* A call g.WithAttrs(as) or g.WithGroup(name) returned: the node it
\* allocated, if any, is on the heap, and the call and its result are kept.
ChainReturned(g, op, as, name, res) ==
    /\ Len(res.heap) <= MaxNodes
    /\ handlers' = res.heap
    /\ IF Len(res.heap) > Len(handlers)
       THEN /\ parent' = Append(parent, g)
            /\ hist' = Append(hist, Append(HistOf(g), [op |-> op, as |-> as, name |-> name]))
       ELSE UNCHANGED <<parent, hist>>
    /\ w' = [recv |-> g, op |-> op, as |-> as, name |-> name, ret |-> res.ret]
    /\ UNCHANGED <<mu, calls, fmtIn, fmtOut>>

ChainWithAttrs(g, as) == ChainReturned(g, "attrs", as, "", goaWithAttrs(handlers, g, as))

ChainWithGroup(g, name) == ChainReturned(g, "group", <<>>, name, goaWithGroup(handlers, g, name))

NextChain ==
    \/ \E g \in 0..Len(handlers), as \in ChainLists : ChainWithAttrs(g, as)
    \/ \E g \in 0..Len(handlers), name \in ChainNames : ChainWithGroup(g, name)

SpecChain == InitChain /\ [][NextChain]_vars

----------------------------------------------------------------------------
(* GroupOrAttrs.Record: goroutines call it on the chains of a heap that *)
(* no call changes any more.  A call has its own slice attrs: the array    *)
(* arr of its capacity, and the window off+1..off+len of it.  A            *)
(* slog.GroupValue made from a slice refers to the elements of the array.  *)

MaxChain == 3

\* A group value that refers to arr[lo..hi].
GroupRef(lo, hi) == [kind |-> "GroupRef", str |-> "", group |-> <<>>, text |-> <<>>,
                     level |-> 0, lo |-> lo, hi |-> hi]

SelectAttrs(as, Keep(_)) ==
    LET F[i \in 0..Len(as)] ==
            IF i = 0 THEN <<>>
            ELSE IF Keep(as[i]) THEN Append(F[i-1], as[i]) ELSE F[i-1]
    IN  F[Len(as)]

\* slog.GroupValue removes the empty groups of its list, and
\* Record.AddAttrs omits them.
omitEmptyGroups(as) ==
    LET NotEmpty(a) == ~isEmptyGroupValue(a.Value)
    IN  SelectAttrs(as, NotEmpty)

\* The attribute a of the array, with what the groups made from the array
\* hold.
RECURSIVE groupOf(_, _)
groupOf(arr, a) ==
    IF a.Value.kind = "GroupRef"
    THEN Group(a.Key,
               omitEmptyGroups([j \in 1..(a.Value.hi - a.Value.lo + 1) |->
                                   groupOf(arr, arr[a.Value.lo + j - 1])]))
    ELSE a

\* Lines 72-74 put after the attrs that are there: the attrs of the node
\* are appended, not prepended.
appendAfter(c, gattrs) ==
    LET n == Len(gattrs)
    IN  IF c.off + c.len + n > Len(c.arr) THEN [c EXCEPT !.pc = "panic"]
        ELSE [c EXCEPT !.len = c.len + n,
                       !.arr = [i \in 1..Len(c.arr) |->
                                   IF c.off + c.len < i /\ i <= c.off + c.len + n
                                   THEN gattrs[i - c.off - c.len]
                                   ELSE c.arr[i]]]

\* Lines 72-74: attrs = attrs[:len(attrs)+len(g.attrs)], the attrs move up
\* and g.attrs are copied before them.  A slice beyond the capacity panics.
prependAttrs(c, gattrs) ==
    LET n == Len(gattrs)
    IN  IF c.off + c.len + n > Len(c.arr) THEN [c EXCEPT !.pc = "panic"]
        ELSE [c EXCEPT !.len = c.len + n,
                       !.arr = [i \in 1..Len(c.arr) |->
                                   IF c.off < i /\ i <= c.off + n
                                   THEN gattrs[i - c.off]
                                   ELSE IF c.off + n < i /\ i <= c.off + n + c.len
                                   THEN c.arr[i - n]
                                   ELSE c.arr[i]]]

\* Lines 76-78: the attrs become the value of a group, which is the one
\* element of the slice that starts after them.
wrapGroup(c, name) ==
    IF c.off + c.len + 1 > Len(c.arr) THEN [c EXCEPT !.pc = "panic"]
    ELSE [c EXCEPT !.off = c.off + c.len,
                   !.len = 1,
                   !.arr = [c.arr EXCEPT ![c.off + c.len + 1] =
                               Attr(name, GroupRef(c.off + 1, c.off + c.len))]]

NoRecordCall ==
    [pc |-> "idle", g |-> nilGoa, cur |-> nilGoa, r |-> NoWrite.r, arr |-> <<>>,
     off |-> 0, len |-> 0, ret |-> NoWrite.r]

RecordLists == { <<String("a", "1")>>, <<Group("e", <<>>), String("b", "2")>>,
                 <<Group("e", <<>>)>> }

\* The calls a chain is made of.
ChainCalls ==
    { [op |-> "attrs", as |-> as, name |-> ""] : as \in RecordLists }
        \cup { [op |-> "group", as |-> <<>>, name |-> n] : n \in ChainNames }

RECURSIVE ChainScripts(_)
ChainScripts(n) ==
    IF n = 0 THEN { <<>> }
    ELSE { <<>> } \cup { Append(s, c) : s \in ChainScripts(n - 1), c \in ChainCalls }

\* The heap, and the pointer returned, after the calls of script made one
\* after the other, each on what the one before it returned.
RECURSIVE BuildChain(_, _, _)
BuildChain(heap, g, script) ==
    IF script = <<>> THEN [heap |-> heap, ret |-> g]
    ELSE LET c == Head(script)
             res == IF c.op = "attrs" THEN goaWithAttrs(heap, g, c.as)
                    ELSE goaWithGroup(heap, g, c.name)
         IN  BuildChain(res.heap, res.ret, Tail(script))

\* What the node g of the heap was made by: the calls of the script up to
\* the one that allocated it.
HistIn(script, g) ==
    LET made == { k \in 0..Len(script) :
                     BuildChain(<<zeroGoa>>, 1, SubSeq(script, 1, k)).ret = g }
    IN  SubSeq(script, 1, CHOOSE k \in made : \A k2 \in made : k <= k2)

RecordRecords ==
    { Record("T1", "m", "f.go:1", <<>>),
      Record("T2", "n", "f.go:2", <<String("c", "3"), Group("k", <<String("d", "4")>>)>>) }

InitRecord ==
    /\ \E script \in ChainScripts(MaxChain) :
          LET heap == BuildChain(<<zeroGoa>>, 1, script).heap
          IN  /\ handlers = heap
              /\ hist = [g \in 1..Len(heap) |-> HistIn(script, g)]
              /\ parent = [g \in 1..Len(heap) |-> heap[g].prev]
    /\ w = NoWithCall
    /\ mu = Unlocked
    /\ calls = [gr \in Goroutines |-> NoRecordCall]
    /\ fmtIn = <<>>
    /\ fmtOut = NotParsed

\* Lines 63-69: a chain with nothing returns r; otherwise attrs is made
\* with the capacity r.NumAttrs()+g.Total() and the attrs of r.
RecordBegin(gr, g, r) ==
    /\ calls[gr].pc \in {"idle", "done"}
    /\ calls' = [calls EXCEPT ![gr] =
                    IF goaTotal(handlers, g) = 0
                    THEN [NoRecordCall EXCEPT !.pc = "done", !.g = g, !.r = r, !.ret = r]
                    ELSE [pc |-> "walk", g |-> g, cur |-> g, r |-> r,
                          arr |-> [i \in 1..(NumAttrs(r) + goaTotal(handlers, g)) |->
                                      IF i <= NumAttrs(r) THEN r.Attrs[i] ELSE EmptyAttr],
                          off |-> 0, len |-> NumAttrs(r), ret |-> NoWrite.r]]
    /\ UNCHANGED <<handlers, parent, hist, w, mu, fmtIn, fmtOut>>

\* Lines 70-80: one turn of the loop, for the node cur.
RecordStep(gr) ==
    /\ calls[gr].pc = "walk"
    /\ calls[gr].cur # nilGoa
    /\ LET c == calls[gr]
           node == handlers[c.cur]
           c2 == IF node.group = "" THEN prependAttrs(c, node.attrs)
                 ELSE wrapGroup(c, node.group)
       IN  calls' = [calls EXCEPT ![gr] =
                        IF c2.pc = "panic" THEN c2 ELSE [c2 EXCEPT !.cur = node.prev]]
    /\ UNCHANGED <<handlers, parent, hist, w, mu, fmtIn, fmtOut>>

\* Lines 82-84: the record returned is a new one with the fields of r and
\* the attrs added to it.
RecordEnd(gr) ==
    /\ calls[gr].pc = "walk"
    /\ calls[gr].cur = nilGoa
    /\ LET c == calls[gr]
           attrs == [j \in 1..c.len |-> groupOf(c.arr, c.arr[c.off + j])]
       IN  calls' = [calls EXCEPT ![gr].pc = "done",
                                  ![gr].ret = [c.r EXCEPT !.Attrs = omitEmptyGroups(attrs)]]
    /\ UNCHANGED <<handlers, parent, hist, w, mu, fmtIn, fmtOut>>

NextRecord ==
    \/ \E gr \in Goroutines, g \in 0..Len(handlers), r \in RecordRecords : RecordBegin(gr, g, r)
    \/ \E gr \in Goroutines : RecordStep(gr)
    \/ \E gr \in Goroutines : RecordEnd(gr)

SpecRecord == InitRecord /\ [][NextRecord]_vars

----------------------------------------------------------------------------
(* WrapHandler (src/unnamed/part_024).  The objects allocated so far are   *)
(* in handlers: the WrapHandlers, the nodes of their GroupOrAttrs and the  *)
(* handlers they wrap; a pointer is an index.  The wrapped handler keeps   *)
(* the calls it was derived by; its With methods return a new handler, and *)
(* for a call that asks for nothing either the receiver (as the internal   *)
(* LayoutHandler does) or a new handler (as slog.TextHandler does).        *)

MaxObjects == 8

nextHandler(returnsSelf, withs) == [returnsSelf |-> returnsSelf, withs |-> withs]

isWrapHandler(obj) == "cfg" \in DOMAIN obj

\* h.next.WithAttrs(as) and h.next.WithGroup(name), as call c.
nextWith(heap, n, c, nothing) ==
    IF nothing /\ heap[n].returnsSelf THEN [heap |-> heap, ret |-> n]
    ELSE [heap |-> Append(heap, nextHandler(heap[n].returnsSelf, Append(heap[n].withs, c))),
          ret |-> Len(heap) + 1]

\* NewWrapHandler
NewWrapHandler(next, cfg) == [cfg |-> cfg, next |-> next, goa |-> nilGoa]

\* h2 := *h; h2.next = next (or h2.goa = goa); return &h2: when the call
\* res on the field changed it; otherwise return h.
wrapReturn(heap, h, field, res) ==
    IF res.ret # heap[h][field]
    THEN [heap |-> Append(res.heap, [heap[h] EXCEPT ![field] = res.ret]),
          ret |-> Len(res.heap) + 1]
    ELSE [heap |-> res.heap, ret |-> h]

\* A WithAttrs that proxies to the next handler whenever ProxyWithAttrs is
\* set.
wrapWithAttrsProxied(heap, h, as) ==
    IF heap[h].cfg.ProxyWith \/ heap[h].cfg.ProxyWithAttrs
    THEN wrapReturn(heap, h, "next",
                    nextWith(heap, heap[h].next, [op |-> "attrs", as |-> as, name |-> ""],
                             countEmptyGroups(as) = Len(as)))
    ELSE wrapReturn(heap, h, "goa", goaWithAttrs(heap, heap[h].goa, as))

\* WrapHandler.WithAttrs, lines 280-293.
wrapWithAttrs(heap, h, as) ==
    IF heap[h].cfg.ProxyWith \/ (heap[h].cfg.ProxyWithAttrs /\ heap[h].goa = nilGoa)
    THEN wrapReturn(heap, h, "next",
                    nextWith(heap, heap[h].next, [op |-> "attrs", as |-> as, name |-> ""],
                             countEmptyGroups(as) = Len(as)))
    ELSE wrapReturn(heap, h, "goa", goaWithAttrs(heap, heap[h].goa, as))

\* WrapHandler.WithGroup, lines 296-309.
wrapWithGroup(heap, h, name) ==
    IF heap[h].cfg.ProxyWith
    THEN wrapReturn(heap, h, "next",
                    nextWith(heap, heap[h].next, [op |-> "group", as |-> <<>>, name |-> name],
                             name = ""))
    ELSE wrapReturn(heap, h, "goa", goaWithGroup(heap, heap[h].goa, name))

WrapConfigs == [ProxyWith : BOOLEAN, ProxyWithAttrs : BOOLEAN]

WrapLists == { <<String("a", "1")>>, <<Group("e", <<>>)>> }

InitWrap ==
    /\ \E cfg \in WrapConfigs, returnsSelf \in BOOLEAN :
          handlers = <<nextHandler(returnsSelf, <<>>), NewWrapHandler(1, cfg)>>
    /\ parent = <<0, 0>>
    /\ hist = << <<>>, <<>> >>
    /\ w = NoWithCall
    /\ mu = Unlocked
    /\ calls = <<>>
    /\ fmtIn = <<>>
    /\ fmtOut = NotParsed

\* A With call c on the WrapHandler h returned: what it allocated is on the
\* heap, and a WrapHandler it allocated has the calls of h and c as its own.
WrapReturned(h, c, res) ==
    /\ Len(res.heap) <= MaxObjects
    /\ handlers' = res.heap
    /\ parent' = [i \in 1..Len(res.heap) |->
                     IF i <= Len(parent) THEN parent[i]
                     ELSE IF isWrapHandler(res.heap[i]) THEN h ELSE 0]
    /\ hist' = [i \in 1..Len(res.heap) |->
                   IF i <= Len(hist) THEN hist[i]
                   ELSE IF isWrapHandler(res.heap[i]) THEN Append(hist[h], c) ELSE <<>>]
    /\ w' = [recv |-> h, op |-> c.op, as |-> c.as, name |-> c.name, ret |-> res.ret]
    /\ UNCHANGED <<mu, calls, fmtIn, fmtOut>>

WrapWithAttrs(h, as) ==
    /\ isWrapHandler(handlers[h])
    /\ WrapReturned(h, [op |-> "attrs", as |-> as, name |-> ""], wrapWithAttrs(handlers, h, as))

WrapWithGroup(h, name) ==
    /\ isWrapHandler(handlers[h])
    /\ WrapReturned(h, [op |-> "group", as |-> <<>>, name |-> name],
                    wrapWithGroup(handlers, h, name))

\* WrapHandler.Handle and Enabled, lines 262-276: the callback is given
\* h.goa and h.next.
WrapCallback(h, which) ==
    /\ isWrapHandler(handlers[h])
    /\ w' = [recv |-> h, op |-> which, as |-> <<>>, name |-> "", ret |-> h,
             goa |-> handlers[h].goa, next |-> handlers[h].next]
    /\ UNCHANGED <<handlers, parent, hist, mu, calls, fmtIn, fmtOut>>

NextWrap ==
    \/ \E h \in 1..Len(handlers), as \in WrapLists : WrapWithAttrs(h, as)
    \/ \E h \in 1..Len(handlers), name \in ChainNames : WrapWithGroup(h, name)
    \/ \E h \in 1..Len(handlers), which \in {"Enabled", "Handle"} : WrapCallback(h, which)

SpecWrap == InitWrap /\ [][NextWrap]_vars

----------------------------------------------------------------------------
(* The ordering lists: NewLayoutHandler is given PrefixKeys and SuffixKeys *)
(* (calls holds the two lists as the caller wrote them), then a record     *)
(* is handled.                                                             *)

MaxKeys == 3

ListKeys == {MessageKey, "p", "s"}

\* The lists of at most n keys.
RECURSIVE KeyLists(_)
KeyLists(n) ==
    IF n = 0 THEN { <<>> }
    ELSE LET shorter == KeyLists(n - 1)
         IN  shorter \cup { Append(l, k) : l \in {x \in shorter : Len(x) = n - 1},
                                            k \in ListKeys }

KeysRecords ==
    { Record(ZeroTime, "m", NoSource,
             <<String("s", "1"), String("a", "2"), String("p", "3"), String("s", "4")>>) }

InitKeys ==
    /\ calls \in { <<[PrefixKeys |-> p, SuffixKeys |-> q]>> :
                      p \in KeyLists(MaxKeys), q \in KeyLists(MaxKeys) }
    /\ handlers = <<>>
    /\ parent = <<>>
    /\ hist = <<>>
    /\ w = NoWrite
    /\ mu = Unlocked
    /\ fmtIn = <<>>
    /\ fmtOut = NotParsed

DoNewLayoutHandlerKeys ==
    /\ handlers = <<>>
    /\ handlers' = <<NewLayoutHandler(
                       Options(FALSE, ReplaceAttrNil, NoFormats,
                               calls[1].PrefixKeys, calls[1].SuffixKeys))>>
    /\ parent' = <<0>>
    /\ hist' = << <<>> >>
    /\ fmtOut' = [state |-> "returned", msg |-> <<>>]
    /\ UNCHANGED <<w, mu, calls, fmtIn>>

NextKeys ==
    \/ DoNewLayoutHandlerKeys
    \/ \E i \in 1..Len(handlers), r \in KeysRecords : DoHandle(i, r)

SpecKeys == InitKeys /\ [][NextKeys]_vars

----------------------------------------------------------------------------
(* The exported handler: a LayoutHandler struct around the internal        *)
(* handler (next).  calls holds the With call that returned last: the      *)
(* internal handler of its receiver, its arguments, and the handler        *)
(* returned.                                                               *)

\* &LayoutHandler{next: ...}: a newly allocated struct, which is not the
\* receiver whatever it holds.
LayoutHandlerAround(next) == [next |-> next, isReceiver |-> FALSE]

WithCall(recv, op, as, name, ret) ==
    [recv |-> recv, op |-> op, as |-> as, name |-> name, ret |-> ret]

\* The internal handler the call on handlers[i] returned: the receiver, or
\* the clone just made.
Returned(i) == IF Len(handlers') = Len(handlers) THEN i ELSE Len(handlers')

PublicWithAttrs(i, as) ==
    /\ WithAttrsStep(i, as)
    /\ calls' = <<WithCall(i, "attrs", as, "", LayoutHandlerAround(Returned(i)))>>
    /\ UNCHANGED <<w, mu, fmtIn, fmtOut>>

PublicWithGroup(i, name) ==
    /\ WithGroupStep(i, name)
    /\ calls' = <<WithCall(i, "group", <<>>, name, LayoutHandlerAround(Returned(i)))>>
    /\ UNCHANGED <<w, mu, fmtIn, fmtOut>>

\* Handle of the exported handler is Handle of next.
PublicHandle(i, r) == DoHandle(i, r)

NextPublic ==
    \/ \E i \in 1..Len(handlers), as \in WithAttrLists : PublicWithAttrs(i, as)
    \/ \E i \in 1..Len(handlers), name \in GroupNames : PublicWithGroup(i, name)
    \/ \E i \in 1..Len(handlers), r \in Records : PublicHandle(i, r)

SpecPublic == Init /\ [][NextPublic]_vars

----------------------------------------------------------------------------
(* Rendering under a directive: one attribute, whose key has a Format, is  *)
(* appended to a buffer that holds something already.  The value is a      *)
(* string given by its bytes, or a level.                                  *)

MaxRunes == 3
MaxWidthDigit == 4
\* The levels: from ten below Debug to ten above Error.
WidthLevels == (LevelDebug - 10)..(LevelError + 10)

\* The code points a string is put together from: of one byte (a letter,
\* a space, a quote), of two, three and four bytes.
WidthRunes ==
    { <<"a">>, <<" ">>, <<"\"">>, <<"C3", "A9">>, <<"E4", "B8", "96">>,
      <<"F0", "9F", "98", "80">> }

RECURSIVE RuneStrings(_)
RuneStrings(n) ==
    IF n = 0 THEN { <<>> }
    ELSE { s \o r : s \in RuneStrings(n - 1), r \in WidthRunes } \cup { <<>> }

\* The attributes: a string under a key of the caller, a level or a short
\* string under the level key.
WidthAttrs ==
    { Attr("k", TextValue(t)) : t \in RuneStrings(MaxRunes) }
        \cup { Attr(LevelKey, LevelValue(l)) : l \in WidthLevels }
        \cup { Attr(LevelKey, TextValue(t)) : t \in RuneStrings(1) }

WidthDigits == { <<DecimalChars(n)[1]>> : n \in 1..MaxWidthDigit }

\* The directives: %[-][min][.[-][max]](v|s).
WidthDirectives ==
    { <<"%">> \o align \o min \o max \o verb :
        align \in { <<>>, <<"-">> },
        min \in { <<>> } \cup WidthDigits,
        max \in { <<>> } \cup { <<".">> \o from \o digit :
                                  from \in { <<>>, <<"-">> },
                                  digit \in { <<>> } \cup WidthDigits },
        verb \in { <<"v">>, <<"s">> } }

\* The formats: a directive, alone or between literal texts.
WidthFormats ==
    WidthDirectives
        \cup { <<"[">> \o d \o <<"]">> : d \in { <<"%", "v">>, <<"%", "2", ".", "3", "s">>,
                                                 <<"%", "-", "3", ".", "-", "2", "v">>,
                                                 <<"%", "3", ".", "3", "v">>,
                                                 <<"%", "2", ".", "v">> } }

\* What the buffer holds before the attribute.
WidthBuf == <<"x", "=", "1">>

InitWidth ==
    /\ \E f \in WidthFormats, a \in WidthAttrs :
          /\ fmtIn = <<f>>
          /\ calls = <<a>>
          /\ handlers = <<NewLayoutHandler(
                            Options(FALSE, ReplaceAttrNil,
                                    (a.Key :> parseAttrFormat(f).af), <<>>, <<>>))>>
    /\ fmtOut = NotParsed
    /\ parent = <<0>>
    /\ hist = << <<>> >>
    /\ w = NoWrite
    /\ mu = Unlocked

\* appendAttr on a handleState whose buffer is WidthBuf: what it appends.
DoAppendAttr ==
    /\ fmtOut.state = "none"
    /\ \E s \in {appendAttr(newHandleState(handlers[1], handlers[1].layoutAttrs, WidthBuf),
                            calls[1])} :
          fmtOut' = [state |-> "appended",
                     msg |-> SubSeq(s.buf, Len(WidthBuf) + 1, Len(s.buf)),
                     bufStart |-> s.bufStart]
    /\ UNCHANGED <<handlers, parent, hist, w, mu, calls, fmtIn>>

NextWidth == DoAppendAttr

SpecWidth == InitWidth /\ [][NextWidth]_vars

----------------------------------------------------------------------------
(* What a line is expected to be, stated over the attributes supplied.     *)

RECURSIVE JoinPath(_)
JoinPath(path) ==
    IF path = <<>> THEN "" ELSE Head(path) \o keyComponentSep \o JoinPath(Tail(path))

Leaf(k, v) == [k |-> k, v |-> v]

\* The leaf attributes of as inside the groups of path, with their fully
\* qualified keys, after ReplaceAttr; empty groups and dropped attributes
\* leave nothing.
RECURSIVE FlattenAttrs(_, _, _)
FlattenAttrs(as, path, rep) ==
    IF as = <<>> THEN <<>>
    ELSE LET a == Head(as)
             here ==
                IF a.Value.kind = "Group"
                THEN FlattenAttrs(a.Value.group,
                                  IF a.Key = "" THEN path ELSE Append(path, a.Key), rep)
                ELSE LET b == IF rep = ReplaceAttrNil THEN a
                              ELSE CallReplaceAttr(rep, path, a)
                     IN  IF b = EmptyAttr THEN <<>>
                         ELSE <<Leaf(JoinPath(path) \o b.Key, b.Value)>>
         IN  here \o FlattenAttrs(Tail(as), path, rep)

\* The groups opened by the WithGroup calls of a chain.
RECURSIVE ChainPath(_)
ChainPath(chain) ==
    IF chain = <<>> THEN <<>>
    ELSE LET c == chain[Len(chain)]
             before == ChainPath(SubSeq(chain, 1, Len(chain) - 1))
         IN  IF c.op = "group" THEN Append(before, c.name) ELSE before

\* The leaves given by the WithAttrs calls of a chain, in call order.
RECURSIVE ChainLeaves(_, _)
ChainLeaves(chain, rep) ==
    IF chain = <<>> THEN <<>>
    ELSE LET c == chain[Len(chain)]
             before == SubSeq(chain, 1, Len(chain) - 1)
         IN  ChainLeaves(before, rep)
                \o (IF c.op = "attrs"
                    THEN FlattenAttrs(c.as, ChainPath(before), rep)
                    ELSE <<>>)

\* The user attributes a Handle call is given: the chain's, then the record's.
UserLeaves(opts, chain, r) ==
    ChainLeaves(chain, opts.ReplaceAttr)
        \o FlattenAttrs(r.Attrs, ChainPath(chain), opts.ReplaceAttr)

\* The built-in time, level and source of a record that are rendered.
BuiltinLeaves(opts, r) ==
    FlattenAttrs(
        (IF r.Time # ZeroTime THEN <<Attr(TimeKey, TimeValue(r.Time))>> ELSE <<>>)
            \o <<Attr(LevelKey, LevelValue(r.Level))>>
            \o (IF opts.AddSource /\ ~isEmptySource(r.Source)
                THEN <<String(SourceKey, r.Source)>> ELSE <<>>),
        <<>>, opts.ReplaceAttr)

SelectLeaves(leaves, Keep(_)) ==
    LET F[i \in 0..Len(leaves)] ==
            IF i = 0 THEN <<>>
            ELSE IF Keep(leaves[i]) THEN Append(F[i-1], leaves[i]) ELSE F[i-1]
    IN  F[Len(leaves)]

\* For every key of keys, in that order, the last leaf with that key.
RECURSIVE LastOfEach(_, _)
LastOfEach(keys, leaves) ==
    IF keys = <<>> THEN <<>>
    ELSE LET IsKey(l) == l.k = Head(keys)
             mine == SelectLeaves(leaves, IsKey)
         IN  (IF mine = <<>> THEN <<>> ELSE <<mine[Len(mine)]>>)
                \o LastOfEach(Tail(keys), leaves)

Listed(opts) == Range(opts.PrefixKeys) \cup Range(opts.SuffixKeys)

\* The fields of the line in the order the options ask for: the built-ins
\* that are not listed, the prefix keys, the message, the attributes that
\* are not listed, the suffix keys.
ExpectedFields(opts, chain, r) ==
    LET builtins == BuiltinLeaves(opts, r)
        user == UserLeaves(opts, chain, r)
        NotListed(l) == l.k \notin Listed(opts)
    IN  SelectLeaves(builtins, NotListed)
            \o LastOfEach(opts.PrefixKeys, builtins \o user)
            \o FlattenAttrs(<<String(MessageKey, r.Message)>>, <<>>, opts.ReplaceAttr)
            \o SelectLeaves(user, NotListed)
            \o LastOfEach(opts.SuffixKeys, builtins \o user)

\* One field alone: its format's text, or key=value.
FieldAtoms(h, l) ==
    LET blank == newHandleState(h, h.layoutAttrs, <<>>)
    IN  IF l.k \in DOMAIN h.opts.Format
        THEN appendFormat(blank, h.opts.Format[l.k], l.k, l.v).buf
        ELSE appendValue(appendKey(blank, l.k), l.k, l.v, noFormat).buf

\* The fields joined: a separator before every field without a format,
\* except at the start of the line.
RECURSIVE JoinFields(_, _, _)
JoinFields(h, fields, out) ==
    IF fields = <<>> THEN out
    ELSE LET l == Head(fields)
             sep == IF l.k \notin DOMAIN h.opts.Format /\ Len(out) > 0
                    THEN <<attrSep>> ELSE <<>>
         IN  JoinFields(h, Tail(fields), out \o sep \o FieldAtoms(h, l))

ExpectedLine(h, chain, r) ==
    Append(JoinFields(h, ExpectedFields(h.opts, chain, r), <<>>), "\n")

Without(atoms, drop) ==
    LET Keep(x) == x \notin drop IN SelectLeaves(atoms, Keep)

\* A line without its separators.
Unspaced(atoms) == Without(atoms, {attrSep})

BuiltinAtoms ==
    {TimeKey, LevelKey, SourceKey, "T1", "INFO", "f.go:1", attrSep, "=", "\n"}

\* The user attributes and the message of a line.
UserPart(atoms) == Without(atoms, BuiltinAtoms)

Written == w.h # 0
WOpts == handlers[1].opts
WExpected == ExpectedLine(handlers[1], hist[w.h], w.r)

\* The handler a chain of With calls makes from a new handler.
RECURSIVE ReplayFrom(_, _)
ReplayFrom(h, chain) ==
    IF chain = <<>> THEN h
    ELSE LET c == Head(chain)
         IN  ReplayFrom(IF c.op = "attrs" THEN WithAttrs(h, c.as)
                        ELSE WithGroup(h, c.name), Tail(chain))

\* The line a handler made by the chain writes for r when nothing else
\* has run.
AloneLine(chain, r) ==
    handleAssemble(handleRender(ReplayFrom(NewLayoutHandler(WOpts), chain), r))

\* The user keys a call is given or has a slot for.
UserKeys(opts, chain, r) ==
    ({ l.k : l \in Range(UserLeaves(opts, chain, r)) } \cup Listed(opts))
        \ {TimeKey, LevelKey, SourceKey, MessageKey}

\* What starts the field of key k in a line, when that can be told.
Marked(opts, k) ==
    k \in DOMAIN opts.Format => opts.Format[k].Prefix # "" /\ opts.Format[k].MaxWidth # 0

Marker(opts, k) ==
    IF k \in DOMAIN opts.Format THEN <<opts.Format[k].Prefix>> ELSE <<k, "=">>

\* The values that follow marker in a line, in order.
ValuesOf(atoms, marker) ==
    LET n == Len(marker)
        F[i \in 0..Len(atoms)] ==
            IF i = 0 THEN <<>>
            ELSE IF i + n <= Len(atoms) /\ SubSeq(atoms, i, i + n - 1) = marker
                 THEN Append(F[i-1], atoms[i + n])
                 ELSE F[i-1]
    IN  F[Len(atoms)]

\* The values key k is expected to show: the last one supplied when k is
\* listed, all of them otherwise.
SuppliedValues(h, chain, r, k) ==
    LET IsKey(l) == l.k = k
        mine == SelectLeaves(UserLeaves(h.opts, chain, r), IsKey)
        n == Len(Marker(h.opts, k))
        vals == [i \in 1..Len(mine) |-> FieldAtoms(h, mine[i])[n + 1]]
    IN  IF k \in Listed(h.opts) /\ Len(vals) > 0 THEN <<vals[Len(vals)]>> ELSE vals

\* The form of a format, read one character at a time: literal*
\* ( '%' ['-'] digits* ( '.' ['-'] digits* )? ('v'|'s') )? literal*,
\* a literal being a character other than '%', or "%%".  q is where the
\* reading is; the result is where it ends.
FormStep(q, c) ==
    CASE q = "literals" -> IF c = "%" THEN "percent" ELSE "literals"
      [] q = "percent" ->
            IF c = "%" THEN "literals"
            ELSE IF c = "-" \/ c \in DigitRuns THEN "min"
            ELSE IF c = "." THEN "dot"
            ELSE IF c \in {"v", "s"} THEN "after"
            ELSE "bad"
      [] q = "min" ->
            IF c \in DigitRuns THEN "min"
            ELSE IF c = "." THEN "dot"
            ELSE IF c \in {"v", "s"} THEN "after"
            ELSE "bad"
      [] q = "dot" ->
            IF c = "-" \/ c \in DigitRuns THEN "max"
            ELSE IF c \in {"v", "s"} THEN "after"
            ELSE "bad"
      [] q = "max" ->
            IF c \in DigitRuns THEN "max"
            ELSE IF c \in {"v", "s"} THEN "after"
            ELSE "bad"
      [] q = "after" -> IF c = "%" THEN "after percent" ELSE "after"
      [] q = "after percent" -> IF c = "%" THEN "after" ELSE "bad"
      [] OTHER -> "bad"

\* Where the reading is after the first i characters of cs.
FormAt(cs) ==
    LET F[i \in 0..Len(cs)] == IF i = 0 THEN "literals" ELSE FormStep(F[i-1], cs[i])
    IN  F

HasForm(cs) == FormAt(cs)[Len(cs)] \in {"literals", "after"}

\* A width of the directive of cs, a run of digits read as one, that
\* does not fit in int.
HasWideWidth(cs) ==
    LET at == FormAt(cs)
        InWidth(i) == at[i] \in {"min", "max"} /\ cs[i] \in DigitRuns
    IN  \E i \in 1..Len(cs) :
            /\ InWidth(i)
            /\ i = 1 \/ ~InWidth(i - 1)
            /\ ~FitsInt(SubSeq(cs, i, digitsEnd(cs, i) - 1))

ValidFormat(cs) == HasForm(cs) /\ ~HasWideWidth(cs)

----------------------------------------------------------------------------
(* Claims                                                                  *)

\* C1: in every line written, the user attributes and the message come in
\* the order fixed by the options: the attributes whose fully qualified key
\* is in PrefixKeys (in PrefixKeys order), the message, the attributes in
\* neither list in the order they were added, the attributes whose key is
\* in SuffixKeys (in SuffixKeys order), whatever order they were logged in.
C1_SlotOrder ==
    Written => UserPart(w.line) = UserPart(WExpected)

\* A line with a prefix and a suffix attribute that were logged in the
\* opposite order, after an attribute that stays in place.
C1_Witness ==
    /\ Written
    /\ WOpts = NewLayoutHandler(OptsLayout).opts
    /\ hist[w.h] = <<[op |-> "attrs", as |-> <<String("a", ""), Group("e", <<>>), String("s", "1")>>, name |-> ""]>>
    /\ w.r.Attrs = <<String("s", "2"), String("a", "2"), String("p", "2"), String("p", "4")>>
    /\ UserPart(w.line) = <<"p", "4", MessageKey, "m", "a", "\"\"", "a", "2", "s", "2">>

\* C2: last one wins.  A key listed in PrefixKeys or SuffixKeys that was
\* supplied several times, by WithAttrs calls or by the record, is in the
\* line once, with the value supplied last; a key in neither list is in the
\* line once per time it was supplied, with its values in that order.
C2_LastOneWins ==
    Written =>
        \A k \in UserKeys(WOpts, hist[w.h], w.r) :
            Marked(WOpts, k) =>
                ValuesOf(w.line, Marker(WOpts, k))
                    = SuppliedValues(handlers[1], hist[w.h], w.r, k)

\* A record that repeats a listed key after a WithAttrs call gave it, and
\* repeats a key that is not listed.
C2_Witness ==
    /\ Written
    /\ WOpts = NewLayoutHandler(OptsLayout).opts
    /\ hist[w.h] = <<[op |-> "attrs", as |-> <<String("p", "1")>>, name |-> ""],
                     [op |-> "attrs", as |-> <<String("a", ""), Group("e", <<>>), String("s", "1")>>, name |-> ""]>>
    /\ w.r.Attrs = <<String("s", "2"), String("a", "2"), String("p", "2"), String("p", "4")>>
    /\ ValuesOf(w.line, <<"p", "=">>) = <<"4">>
    /\ ValuesOf(w.line, <<"a", "=">>) = <<"\"\"", "2">>

C4_OneWriteUnderMutex ==
    /\ \A g \in Goroutines :
         LET c == calls[g]
         IN  /\ c.pc \in {"write", "writing", "unlock"} <=> mu = g
             /\ c.nwrites = IF c.pc \in {"writing", "unlock"} THEN 1 ELSE 0
             /\ c.pc \in {"writing", "unlock"} => w.g = g
             /\ c.pc = "writing" =>
                    ~w.done /\ w.line = SubSeq(c.line, 1, Len(c.line) - 1)
             /\ c.pc = "unlock" =>
                    /\ w.done /\ w.line = c.line
                    /\ c.line[Len(c.line)] = "\n"
                    /\ \A k \in 1..(Len(c.line) - 1) : c.line[k] # "\n"
    /\ ~w.done => mu = w.g /\ calls[w.g].pc = "writing"

\* A goroutine has written its line and holds the mutex while the other
\* goroutine, on the derived handler, waits for it with its line assembled.
C4_Witness ==
    /\ calls["g1"].pc = "unlock" /\ calls["g1"].h = 1
    /\ calls["g2"].pc = "lock" /\ calls["g2"].h = 2
    /\ w.done /\ w.g = "g1" /\ w.line = calls["g1"].line

\* C5: concurrent Handle calls share no mutable state but the sink.  Every
\* line written is the line the call writes when it runs alone.
C5_NoSharedState ==
    (w.h # 0 /\ w.done) => w.line = AloneLine(hist[w.h], w.r)

\* C6: Handle leaves the handler unchanged.  The line written for a record
\* is the line the handler writes for it when no record was handled before.
C6_HandleLeavesHandler ==
    Written => w.line = AloneLine(hist[w.h], w.r)

\* C7: the separator rule.  Where no built-in key is listed, the line is
\* exactly its fields, every field without a Format entry preceded by one
\* separator unless it starts the line, every field with one by none.
C7_SeparatorRule ==
    (Written /\ Listed(WOpts) \cap {TimeKey, LevelKey, SourceKey} = {}) =>
        Concat(w.line) = Concat(WExpected)

\* C8: NewLayoutHandler panics if and only if a value of opts.Format is
\* not of the form, or has a width that does not fit in int; the message
\* has "slogx: invalid attr format" and an offending format string; the
\* panic leaves no handler, also when a valid format is in the map.
C8_PanicIffInvalid ==
    fmtOut.state # "none" =>
        LET invalid == {i \in 1..Len(fmtIn) : ~ValidFormat(fmtIn[i])}
        IN  /\ fmtOut.state = "panic" <=> invalid # {}
            /\ fmtOut.state = "panic" =>
                  /\ fmtOut.msg[1] = "slogx: invalid attr format"
                  /\ \E i \in invalid : fmtOut.msg[Len(fmtOut.msg)] = Concat(fmtIn[i])
                  /\ handlers = <<>>
            /\ fmtOut.state = "returned" => Len(handlers) = 1

\* A panic for a width that does not fit, given in a directive that has
\* the form, with a valid format parsed before it.
C8_Witness ==
    /\ fmtOut.state = "panic"
    /\ fmtIn = << <<"%", "s">>, <<"%", "7", ".", OverIntText, "s">> >>
    /\ fmtOut.msg = <<"slogx: invalid attr format", " (max width)", ": ",
                      "%7.9223372036854775808s">>

\* C9: the fixed order.  Without PrefixKeys and SuffixKeys the fields are
\* time (unless zero), level, source (with AddSource, unless unavailable),
\* message, the WithAttrs attributes in call order, the record's
\* attributes in order; with no Format and no ReplaceAttr either, the line
\* is exactly these as key=value joined by single spaces.
C9_FixedOrder ==
    (Written /\ Listed(WOpts) = {}) =>
        /\ Unspaced(w.line) = Unspaced(WExpected)
        /\ WOpts \in {OptsDefault, OptsSource} => Concat(w.line) = Concat(WExpected)

\* With AddSource, a record with time and source logged through a handler
\* that was given attributes.
C9_Witness ==
    /\ Written
    /\ WOpts = OptsSource
    /\ hist[w.h] = <<[op |-> "attrs", as |-> <<String("p", "1")>>, name |-> ""]>>
    /\ w.r = Record("T1", "", "f.go:1",
                    <<Group("g", <<String("p", "5")>>), Group("p", <<Group("e", <<>>)>>),
                      String("a", "3")>>)
    /\ Concat(w.line) = "time=T1 level=INFO source=f.go:1 msg=\"\" p=1 g.p=5 a=3\n"

\* C10: built-in keys are reordered like any other key.  The line a
\* handler writes when nothing ran before has its fields in the order the
\* options ask for, the listed built-in keys at their listed positions.
C10_BuiltinsReordered ==
    Written => Unspaced(AloneLine(hist[w.h], w.r)) = Unspaced(WExpected)

----------------------------------------------------------------------------
(* Rendering under a directive: what the claims compare the appended       *)
(* bytes with.                                                             *)

\* The attribute appended, its directive, and what was appended for it.
WAttr == calls[1]
WFormat == handlers[1].opts.Format[WAttr.Key]
Appended == fmtOut.state = "appended"

\* The bytes without the literal texts of the directive around them.
Field(bytes, format) ==
    SubSeq(bytes, IF format.Prefix # "" THEN 2 ELSE 1,
           IF format.Suffix # "" THEN Len(bytes) - 1 ELSE Len(bytes))

WField == Field(fmtOut.msg, WFormat)

\* The code points in a run of buffer elements: a continuation byte
\* starts none, a leading byte one, a text of ASCII bytes one for each.
RECURSIVE CodePoints(_)
CodePoints(bytes) ==
    IF bytes = <<>> THEN 0
    ELSE (IF Head(bytes) \in ContBytes THEN 0
          ELSE IF Head(bytes) \in {"C3", "E2", "E4", "F0"} THEN 1
          ELSE Len(Head(bytes))) + CodePoints(Tail(bytes))

\* A byte string as the sequence of its code points.
RECURSIVE Runes(_, _)
Runes(bytes, done) ==
    IF bytes = <<>> THEN done
    ELSE IF Head(bytes) \in ContBytes /\ done # <<>>
    THEN Runes(Tail(bytes), [done EXCEPT ![Len(done)] = @ \o <<Head(bytes)>>])
    ELSE Runes(Tail(bytes), Append(done, <<Head(bytes)>>))

RECURSIVE Flat(_)
Flat(runes) == IF runes = <<>> THEN <<>> ELSE Head(runes) \o Flat(Tail(runes))

\* The text of the value with no width to fit: a level's name, a string
\* quoted when %v asks for it and the string needs it.
Rendered(v, format) ==
    IF v.kind = "Level" THEN LevelChars(v.level)
    ELSE IF ~format.SkipQuote /\ needsQuotingText(v.text) THEN QuoteText(v.text)
    ELSE v.text

WRunes == Runes(Rendered(WAttr.Value, WFormat), <<>>)

IsQuoted(runes) == runes # <<>> /\ runes[1] = <<"\"">>

\* The short level name takes the place of the level's text.
IsShortLevel ==
    /\ WAttr.Key = LevelKey
    /\ WAttr.Value.kind = "Level"
    /\ WFormat.MinWidth = 3
    /\ WFormat.MaxWidth = 3

\* The code points of a text cut to wd of them from its end.
CutFromEnd(runes, wd) ==
    IF Len(runes) <= wd THEN runes
    ELSE IF ~IsQuoted(runes) THEN Append(SubSeq(runes, 1, wd - 1), Ellipsis)
    ELSE IF wd > 2 THEN SubSeq(runes, 1, wd - 2) \o <<Ellipsis, <<"\"">> >>
    ELSE IF wd = 1 THEN <<Ellipsis>>
    ELSE <<Ellipsis, Ellipsis>>

\* The code points of a text cut to wd of them from its start.
CutFromStart(runes, wd) ==
    IF Len(runes) <= wd THEN runes
    ELSE IF ~IsQuoted(runes)
    THEN <<Ellipsis>> \o SubSeq(runes, Len(runes) - wd + 2, Len(runes))
    ELSE IF wd > 2
    THEN << <<"\"">>, Ellipsis >> \o SubSeq(runes, Len(runes) - wd + 3, Len(runes))
    ELSE IF wd = 1 THEN <<Ellipsis>>
    ELSE <<Ellipsis, Ellipsis>>

\* A field without pad elements of padding: they are before the value
\* unless the '-' flag puts them after it.
Unpadded(field, format, n) ==
    IF format.MinWidth <= n THEN field
    ELSE IF format.AlignRight THEN SubSeq(field, format.MinWidth - n + 1, Len(field))
    ELSE SubSeq(field, 1, Len(field) - (format.MinWidth - n))

\* What appendAttr appends for an attribute whose key has the directive.
Appends(a, format) ==
    SubSeq(appendAttr(newHandleState(
                          NewLayoutHandler(Options(FALSE, ReplaceAttrNil,
                                                   (a.Key :> format), <<>>, <<>>)),
                          <<>>, WidthBuf), a).buf,
           Len(WidthBuf) + 1,
           Len(appendAttr(newHandleState(
                              NewLayoutHandler(Options(FALSE, ReplaceAttrNil,
                                                       (a.Key :> format), <<>>, <<>>)),
                              <<>>, WidthBuf), a).buf))

\* The value as the directive renders it before the padding step: what
\* the same directive without a minimum width renders, or the short level
\* name, which is not padded.
WValue ==
    IF IsShortLevel THEN WField
    ELSE Field(Appends(WAttr, [WFormat EXCEPT !.MinWidth = 0]), WFormat)

\* The short name of a level: three letters for a canonical level, else
\* the letter of the highest canonical level not above it (D below Info)
\* and the signed offset from that level.
ShortName(l) ==
    CASE l = LevelDebug -> "DBG"
      [] l = LevelInfo -> "INF"
      [] l = LevelWarn -> "WRN"
      [] l = LevelError -> "ERR"
      [] l # LevelDebug /\ l < LevelInfo -> Concat(<<"D">> \o SignedChars(l - LevelDebug))
      [] l > LevelInfo /\ l < LevelWarn -> Concat(<<"I">> \o SignedChars(l - LevelInfo))
      [] l > LevelWarn /\ l < LevelError -> Concat(<<"W">> \o SignedChars(l - LevelWarn))
      [] l > LevelError -> Concat(<<"E">> \o SignedChars(l - LevelError))

----------------------------------------------------------------------------
\* C12: Truncation from the end.  Under a directive with a maximum width
\* W > 0 and no '-' after the '.', the value, padding aside, is its text
\* when that has at most W code points; else its first W-1 code points and
\* an ellipsis when unquoted, its first W-2 code points, an ellipsis and a
\* closing quote when quoted and W > 2, one ellipsis when W = 1, two when
\* quoted and W = 2.  No code point is split.
C12_TruncateFromEnd ==
    (Appended /\ WFormat.MaxWidth > 0 /\ ~WFormat.TruncFromStart /\ ~IsShortLevel)
        => Concat(Unpadded(WField, WFormat,
                           Len(CutFromEnd(WRunes, WFormat.MaxWidth))))
               = Concat(Flat(CutFromEnd(WRunes, WFormat.MaxWidth)))

C12_Witness ==
    /\ Appended
    /\ fmtIn = << <<"%", ".", "3", "v">> >>
    /\ WAttr = Attr("k", TextValue(<<"C3", "A9", " ", "F0", "9F", "98", "80">>))
    /\ fmtOut.msg = <<"\"", "E2", "80", "A6", "\"">>

\* C13: Truncation from the start.  Under a directive with a maximum width
\* W > 0 and a '-' after the '.', a value of more than W code points is,
\* padding aside, an ellipsis and its last W-1 code points when unquoted,
\* a quote, an ellipsis and its last W-2 code points when quoted and W > 2,
\* one ellipsis when W = 1, two when quoted and W = 2: W code points in
\* all, the tail starting at a code point.
C13_TruncateFromStart ==
    (Appended /\ WFormat.MaxWidth > 0 /\ WFormat.TruncFromStart /\ ~IsShortLevel
       /\ Len(WRunes) > WFormat.MaxWidth)
        => /\ Concat(Unpadded(WField, WFormat, WFormat.MaxWidth))
                 = Concat(Flat(CutFromStart(WRunes, WFormat.MaxWidth)))
           /\ CodePoints(Unpadded(WField, WFormat, WFormat.MaxWidth)) = WFormat.MaxWidth

C13_Witness ==
    /\ Appended
    /\ fmtIn = << <<"%", ".", "-", "4", "v">> >>
    /\ WAttr = Attr("k", TextValue(<<" ", "C3", "A9", "F0", "9F", "98", "80">>))
    /\ fmtOut.msg = <<"\"", "E2", "80", "A6", "F0", "9F", "98", "80", "\"">>

\* C14: Maximum width.  Under a directive with a maximum width W > 0 the
\* text rendered for the value, the padding and the literal texts of the
\* directive not counted, has at most W code points, for every key.
C14_MaxWidth ==
    (Appended /\ WFormat.MaxWidth > 0) => CodePoints(WValue) <= WFormat.MaxWidth

\* C15: Minimum-width padding.  Under a directive with minimum width M the
\* field is the value as rendered and cut, of n code points, with
\* max(0, M - n) spaces before it, or after it under the '-' flag; the
\* value's bytes are the same as without a minimum width, and a directive
\* with maximum width 0 renders M spaces.
C15_MinWidthPadding ==
    Appended
        => /\ Concat(WField)
                 = IF WFormat.AlignRight
                   THEN Concat(Spaces(Max2(0, WFormat.MinWidth - CodePoints(WValue)))
                                   \o WValue)
                   ELSE Concat(WValue
                                   \o Spaces(Max2(0, WFormat.MinWidth - CodePoints(WValue))))
           /\ CodePoints(WField) >= WFormat.MinWidth
           /\ WFormat.MaxWidth = 0 => WField = Spaces(WFormat.MinWidth)

C15_Witness ==
    /\ Appended
    /\ fmtIn = << <<"%", "-", "4", ".", "2", "v">> >>
    /\ WAttr = Attr("k", TextValue(<<"C3", "A9", "a", "a">>))
    /\ fmtOut.msg = <<"C3", "A9", "E2", "80", "A6", " ", " ">>

\* C16: Short level names.  For the level key and a directive with minimum
\* and maximum width 3 a level is rendered by its short name; under any
\* other directive it is rendered as its long name is, given as a string.
C16_ShortLevel ==
    (Appended /\ WAttr.Key = LevelKey /\ WAttr.Value.kind = "Level")
        => IF WFormat.MinWidth = 3 /\ WFormat.MaxWidth = 3
           THEN Concat(WField) = ShortName(WAttr.Value.level)
           ELSE Concat(fmtOut.msg)
                    = Concat(Appends(Attr("k", TextValue(LevelChars(WAttr.Value.level))),
                                     WFormat))

C16_Witness ==
    /\ Appended
    /\ fmtIn = << <<"%", "-", "3", ".", "3", "s">> >>
    /\ WAttr = Attr(LevelKey, LevelValue(LevelInfo + 3))
    /\ fmtOut.msg = <<"I+3">>

----------------------------------------------------------------------------
(* Value hiding                                                            *)

\* A key under which the format has no verb: its value is not rendered.
Hidden(opts, k) ==
    k \in DOMAIN opts.Format /\ opts.Format[k].MaxWidth = 0
        /\ opts.Format[k].MinWidth = 0

\* as with v in the place of every value logged under a hidden key.
RECURSIVE MaskAttrs(_, _, _, _)
MaskAttrs(as, path, opts, v) ==
    IF as = <<>> THEN <<>>
    ELSE LET a == Head(as)
             inside == IF a.Key = "" THEN path ELSE Append(path, a.Key)
             masked ==
                IF Hidden(opts, JoinPath(path) \o a.Key) THEN Attr(a.Key, v)
                ELSE IF a.Value.kind = "Group"
                THEN Group(a.Key, MaskAttrs(a.Value.group, inside, opts, v))
                ELSE a
         IN  <<masked>> \o MaskAttrs(Tail(as), path, opts, v)

MaskChain(chain, opts, v) ==
    [j \in 1..Len(chain) |->
        IF chain[j].op = "attrs"
        THEN [chain[j] EXCEPT
                 !.as = MaskAttrs(@, ChainPath(SubSeq(chain, 1, j - 1)), opts, v)]
        ELSE chain[j]]

MaskRecord(r, path, opts, v) ==
    [r EXCEPT !.Attrs = MaskAttrs(@, path, opts, v)]

\* The hidden keys the attributes of as are logged under.
RECURSIVE HiddenKeys(_, _, _)
HiddenKeys(as, path, opts) ==
    IF as = <<>> THEN {}
    ELSE LET a == Head(as)
             k == JoinPath(path) \o a.Key
             inside == IF a.Key = "" THEN path ELSE Append(path, a.Key)
         IN  (IF Hidden(opts, k) THEN {k}
              ELSE IF a.Value.kind = "Group"
              THEN HiddenKeys(a.Value.group, inside, opts)
              ELSE {})
                \cup HiddenKeys(Tail(as), path, opts)

\* The values a hidden key may be logged with.
MaskValues ==
    {StringValue("zz"), StringValue(""), TimeValue("T1"), LevelValue(LevelWarn)}

WHiddenKeys == HiddenKeys(w.r.Attrs, ChainPath(hist[w.h]), WOpts)

WMasked(v) ==
    AloneLine(MaskChain(hist[w.h], WOpts, v),
              MaskRecord(w.r, ChainPath(hist[w.h]), WOpts, v))

\* C11: a value logged under a key whose format has no verb does not reach
\* the line: whatever value, of whatever kind, is logged under the key, the
\* line is the same, and it has the literal text of the format.
C11_ValueHidden ==
    Written =>
        /\ \A v \in MaskValues : AloneLine(hist[w.h], w.r) = WMasked(v)
        /\ \A k \in WHiddenKeys :
              WOpts.Format[k].Prefix # ""
                  => \E j \in 1..Len(w.line) : w.line[j] = WOpts.Format[k].Prefix

\* The same, for the values that are not groups.
RECURSIVE HasHiddenGroup(_, _, _)
HasHiddenGroup(as, path, opts) ==
    \E j \in 1..Len(as) :
        /\ as[j].Value.kind = "Group"
        /\ \/ Hidden(opts, JoinPath(path) \o as[j].Key)
           \/ HasHiddenGroup(as[j].Value.group,
                             IF as[j].Key = "" THEN path ELSE Append(path, as[j].Key),
                             opts)

C11_HiddenUnlessGroup ==
    (Written /\ ~HasHiddenGroup(w.r.Attrs, ChainPath(hist[w.h]), WOpts))
        => /\ \A v \in MaskValues : AloneLine(hist[w.h], w.r) = WMasked(v)
           /\ \A k \in WHiddenKeys :
                 WOpts.Format[k].Prefix # ""
                     => \E j \in 1..Len(w.line) : w.line[j] = WOpts.Format[k].Prefix

\* A record with a value under a hidden key has been written.
C11_HiddenWritten ==
    /\ Written
    /\ WOpts = OptsRedact
    /\ \E j \in 1..Len(w.r.Attrs) : w.r.Attrs[j] = String("s", "2")
    /\ \E j \in 1..Len(w.line) : w.line[j] = " s=REDACTED"


----------------------------------------------------------------------------
(* Qualified keys                                                          *)

\* An attribute of as is a group with children.
HasGroupAttr(as) ==
    \E j \in 1..Len(as) : as[j].Value.kind = "Group" /\ as[j].Value.group # <<>>

\* The call was given a key inside a group: one opened by WithGroup or a
\* group-valued attribute.
WQualified ==
    \/ ChainPath(hist[w.h]) # <<>>
    \/ HasGroupAttr(w.r.Attrs)
    \/ \E j \in 1..Len(hist[w.h]) : HasGroupAttr(hist[w.h][j].as)

\* The built-in keys with the name of a group before them.
QualifiedBuiltins ==
    { g \o keyComponentSep \o b :
        g \in GroupNames \ {""}, b \in {TimeKey, LevelKey, SourceKey, MessageKey} }

\* C17: the Format entry and the prefix or suffix slot of an attribute are
\* those of its fully qualified key: the groups opened by WithGroup, the
\* keys of the enclosing group-valued attributes and its own key, joined by
\* '.'.  An entry for "k" is not applied to "g.k" nor one for "g.k" to "k",
\* and the built-in attributes are not qualified by the WithGroup groups.
C17_QualifiedKey ==
    (Written /\ WQualified) =>
        /\ UserPart(w.line) = UserPart(WExpected)
        /\ \A j \in 1..Len(w.line) : w.line[j] \notin QualifiedBuiltins
        /\ \A l \in Range(UserLeaves(WOpts, hist[w.h], w.r)) :
              l.k \notin DOMAIN WOpts.Format
                  => \E j \in 1..Len(w.line) : w.line[j] = l.k

\* Under a group opened by WithGroup, "p" is logged as "g.p", which has a
\* Format entry and a prefix slot, and "s" as "g.s", which has neither
\* although "s" has both.
C17_Witness ==
    /\ Written
    /\ WOpts = NewLayoutHandler(OptsLayoutFormat).opts
    /\ hist[w.h] = <<[op |-> "group", as |-> <<>>, name |-> "g"],
                     [op |-> "attrs", as |-> <<String("a", ""), Group("e", <<>>), String("s", "1")>>, name |-> ""]>>
    /\ w.r.Attrs = <<String("s", "2"), String("a", "2"), String("p", "2"), String("p", "4")>>
    /\ w.line = <<" G.p=", "4", " ", "msg", "=", "m", " ", "g.a", "=", "\"\"",
                  " ", "g.s", "=", "1", " ", "g.s", "=", "2", " ", "g.a", "=", "2", "\n">>

----------------------------------------------------------------------------
(* Empty groups                                                            *)

\* as without the attributes that are groups with no children, at every
\* depth.
RECURSIVE StripEmpty(_)
StripEmpty(as) ==
    IF as = <<>> THEN <<>>
    ELSE LET a == Head(as)
             kept == IF a.Value.kind # "Group" THEN <<a>>
                     ELSE IF StripEmpty(a.Value.group) = <<>> THEN <<>>
                     ELSE <<Group(a.Key, StripEmpty(a.Value.group))>>
         IN  kept \o StripEmpty(Tail(as))

StripChain(chain) ==
    [j \in 1..Len(chain) |->
        IF chain[j].op = "attrs" THEN [chain[j] EXCEPT !.as = StripEmpty(@)]
        ELSE chain[j]]

StripRecord(r) == [r EXCEPT !.Attrs = StripEmpty(@)]

\* The chain without the WithGroup calls after which nothing was added.
RECURSIVE TrimGroups(_)
TrimGroups(chain) ==
    IF chain # <<>> /\ chain[Len(chain)].op = "group"
    THEN TrimGroups(SubSeq(chain, 1, Len(chain) - 1))
    ELSE chain

\* The qualified keys of the groups with no children in as.
RECURSIVE EmptyGroupKeys(_, _)
EmptyGroupKeys(as, path) ==
    IF as = <<>> THEN {}
    ELSE LET a == Head(as)
             here == IF a.Value.kind # "Group" THEN {}
                     ELSE IF a.Value.group = <<>> THEN {JoinPath(path) \o a.Key}
                     ELSE EmptyGroupKeys(a.Value.group,
                                         IF a.Key = "" THEN path ELSE Append(path, a.Key))
         IN  here \cup EmptyGroupKeys(Tail(as), path)

\* Some attribute of as, at some depth, is a group with no children.
HasEmptyGroup(as) == StripEmpty(as) # as

WHasEmptyGroup ==
    \/ HasEmptyGroup(w.r.Attrs)
    \/ \E j \in 1..Len(hist[w.h]) : HasEmptyGroup(hist[w.h][j].as)

\* C18: a group with no children emits nothing, given to Handle or to
\* WithAttrs: the line is the one written without the attribute (no key, no
\* separator, the same separators and slots for everything else); and a
\* group opened by WithGroup is not in the line when nothing was added after
\* it and the record has no attributes.
C18_EmptyGroupElided ==
    Written =>
        /\ AloneLine(hist[w.h], w.r)
              = AloneLine(StripChain(hist[w.h]), StripRecord(w.r))
        /\ UserPart(w.line)
              = UserPart(AloneLine(StripChain(hist[w.h]), StripRecord(w.r)))
        /\ \A k \in EmptyGroupKeys(w.r.Attrs, ChainPath(hist[w.h])) :
              k \notin { l.k : l \in Range(UserLeaves(WOpts, hist[w.h], w.r)) }
                  => \A j \in 1..Len(w.line) : w.line[j] # k
        /\ StripEmpty(w.r.Attrs) = <<>> =>
              /\ AloneLine(hist[w.h], w.r)
                    = AloneLine(TrimGroups(StripChain(hist[w.h])), StripRecord(w.r))
              /\ \A j \in 1..Len(w.line) : w.line[j] \notin GroupNames

\* An empty group among the attributes of a WithAttrs call, and one in the
\* record, inside a group whose key has a prefix slot filled before.
C18_Witness ==
    /\ Written
    /\ WOpts = NewLayoutHandler(OptsLayout).opts
    /\ hist[w.h] = <<[op |-> "attrs", as |-> <<String("p", "1")>>, name |-> ""],
                     [op |-> "attrs",
                      as |-> <<String("a", ""), Group("e", <<>>), String("s", "1")>>,
                      name |-> ""]>>
    /\ w.r.Attrs = <<Group("g", <<String("p", "5")>>), Group("p", <<Group("e", <<>>)>>),
                     String("a", "3")>>
    /\ Concat(w.line) = "time=T1 level=INFO p=1 g.p=5 msg=\"\" a=\"\" a=3 s=1\n"

\* A line written through a group opened by WithGroup for a record without
\* attributes.
C18_GroupWitness ==
    /\ Written
    /\ hist[w.h] # <<>>
    /\ hist[w.h][Len(hist[w.h])].op = "group"
    /\ w.r.Attrs = <<>>

----------------------------------------------------------------------------
(* With calls that ask for nothing                                         *)

\* The line handler i writes for r now.
LineOf(i, r) == handleAssemble(handleRender(handlers[i], r))

\* The call was WithAttrs without an attribute that is not an empty group,
\* or WithGroup with an empty name.
AsksNothing(c) ==
    IF c.op = "attrs"
    THEN \A j \in 1..Len(c.as) : c.as[j].Value.kind = "Group" /\ c.as[j].Value.group = <<>>
    ELSE c.name = ""

\* The call returned a handler around the receiver's internal handler,
\* which writes what the receiver writes.
SameInside(c) ==
    /\ c.ret.next = c.recv
    /\ \A r \in Records : LineOf(c.ret.next, r) = LineOf(c.recv, r)

\* C19: WithAttrs with no attributes or only empty groups, and WithGroup
\* with an empty name, return the receiver itself: the handler returned
\* writes the same line for every record, no clone is made, and it is
\* reference-equal to the receiver.
C19_NoOpReturnsReceiver ==
    \A j \in 1..Len(calls) :
        AsksNothing(calls[j]) => SameInside(calls[j]) /\ calls[j].ret.isReceiver

\* The same without reference equality: the handler returned holds the
\* receiver's internal handler, and a call that asks for something holds a
\* clone.
C19_NoOpSameInside ==
    \A j \in 1..Len(calls) :
        /\ AsksNothing(calls[j]) => SameInside(calls[j])
        /\ ~AsksNothing(calls[j]) => calls[j].ret.next # calls[j].recv

\* WithAttrs with only an empty group has returned, on a derived handler
\* that has written a line.
C19_NoOpCalled ==
    /\ calls # <<>>
    /\ calls[1].op = "attrs"
    /\ calls[1].as = <<Group("e", <<>>)>>
    /\ calls[1].recv > 1
    /\ w.h = calls[1].recv

----------------------------------------------------------------------------
(* The ordering lists after construction                                   *)

\* seq without the keys of excluded and without repeated occurrences, the
\* order kept.
KeptKeys(seq, excluded) ==
    LET Kept(j) == seq[j] \notin excluded /\ \A i \in 1..(j - 1) : seq[i] # seq[j]
        F[j \in 0..Len(seq)] ==
            IF j = 0 THEN <<>>
            ELSE IF Kept(j) THEN Append(F[j - 1], seq[j]) ELSE F[j - 1]
    IN  F[Len(seq)]

NoRepeat(seq) == \A i, j \in 1..Len(seq) : seq[i] = seq[j] => i = j

\* The lists the caller gave.
Given == calls[1]

\* C20: after NewLayoutHandler the PrefixKeys of the handler are the
\* caller's without MessageKey and without repeated occurrences, its
\* SuffixKeys the caller's without MessageKey, the caller's prefix keys and
\* repeated occurrences, both in the caller's order; the lists are disjoint;
\* there is one slot for every key of the two lists, so the slot index of
\* every key is in range; and a line written has the listed keys in their
\* slots.
C20_ListsNormalized ==
    handlers # <<>> =>
        /\ WOpts.PrefixKeys = KeptKeys(Given.PrefixKeys, {MessageKey})
        /\ WOpts.SuffixKeys
              = KeptKeys(Given.SuffixKeys, {MessageKey} \cup Range(Given.PrefixKeys))
        /\ NoRepeat(WOpts.PrefixKeys) /\ NoRepeat(WOpts.SuffixKeys)
        /\ Range(WOpts.PrefixKeys) \cap Range(WOpts.SuffixKeys) = {}
        /\ MessageKey \notin Listed(WOpts)
        /\ \A i \in 1..Len(handlers) :
              /\ Len(handlers[i].layoutAttrs)
                    = Len(WOpts.PrefixKeys) + Len(WOpts.SuffixKeys)
              /\ \A k \in ListKeys \cup {"a", TimeKey, LevelKey} :
                    /\ layoutIndex(k, WOpts) \in 0..Len(handlers[i].layoutAttrs)
                    /\ layoutIndex(k, WOpts) > 0 <=> k \in Listed(WOpts)
        /\ Written => w.line = WExpected

\* Lists with the message key, a repeated key and a key in both: "p" is a
\* prefix key only, and the line has it before the message and "s" last.
C20_Witness ==
    /\ Written
    /\ Given = [PrefixKeys |-> <<"p", MessageKey, "p">>, SuffixKeys |-> <<"s", "p", "s">>]
    /\ WOpts.PrefixKeys = <<"p">>
    /\ WOpts.SuffixKeys = <<"s">>
    /\ Concat(w.line) = "level=INFO p=3 msg=m a=2 s=4\n"

----------------------------------------------------------------------------
(* Values whose text conversion fails                                      *)

\* What stands for a value whose conversion fails.
FailureText(v) ==
    CASE v.kind = "NilPointer" -> "<nil>"
      [] v.kind = "Panics" -> "!PANIC: " \o v.str
      [] v.kind = "Fails" -> "!ERROR:" \o v.str

Failing(v) == v.kind \in {"NilPointer", "Panics", "Fails"}

\* The string that renders under the Format of key k as the failure text
\* does without one: the text itself, or the text in quotes when the
\* Format asks for no quoting and the text has a space.
FailureString(opts, k, v) ==
    IF k \in DOMAIN opts.Format /\ opts.Format[k].SkipQuote /\ v.kind = "Panics"
    THEN StringValue(Quote(FailureText(v)))
    ELSE StringValue(FailureText(v))

\* as with the failure string in the place of every value that fails.
RECURSIVE RecoverAttrs(_, _, _)
RecoverAttrs(as, path, opts) ==
    IF as = <<>> THEN <<>>
    ELSE LET a == Head(as)
             inside == IF a.Key = "" THEN path ELSE Append(path, a.Key)
             b == IF Failing(a.Value)
                  THEN Attr(a.Key, FailureString(opts, JoinPath(path) \o a.Key, a.Value))
                  ELSE IF a.Value.kind = "Group"
                  THEN Group(a.Key, RecoverAttrs(a.Value.group, inside, opts))
                  ELSE a
         IN  <<b>> \o RecoverAttrs(Tail(as), path, opts)

RecoverChain(chain, opts) ==
    [j \in 1..Len(chain) |->
        IF chain[j].op = "attrs"
        THEN [chain[j] EXCEPT
                 !.as = RecoverAttrs(@, ChainPath(SubSeq(chain, 1, j - 1)), opts)]
        ELSE chain[j]]

RecoverRecord(r, path, opts) == [r EXCEPT !.Attrs = RecoverAttrs(@, path, opts)]

\* The failing values the call was given, with their qualified keys.
WFailing ==
    { l \in Range(UserLeaves(WOpts, hist[w.h], w.r)) : Failing(l.v) }

WRecovered ==
    AloneLine(RecoverChain(hist[w.h], WOpts),
              RecoverRecord(w.r, ChainPath(hist[w.h]), WOpts))

\* C21: a value whose text conversion panics or returns an error costs
\* only itself: Handle and WithAttrs return, a line is written, and the line
\* is the one written for the same attributes with the string <nil> (a nil
\* pointer), "!PANIC: <message>" (another panic) or !ERROR:<err> where the
\* failing values are.
C21_FailureRecovered ==
    Written =>
        /\ w.line # <<>> /\ w.line[Len(w.line)] = "\n"
        /\ AloneLine(hist[w.h], w.r) = WRecovered
        /\ UserPart(w.line) = UserPart(WRecovered)
        /\ \A l \in WFailing :
              l.k \notin Listed(WOpts) =>
                  \E j \in 1..Len(w.line) :
                      w.line[j] \in {FailureText(l.v), Quote(FailureText(l.v))}

\* A nil pointer in a suffix slot, an error in place, and a panic given to
\* WithAttrs for a key with a Format and a prefix slot, overwritten by the
\* record.
C21_Witness ==
    /\ Written
    /\ WOpts = NewLayoutHandler(OptsSlotted).opts
    /\ hist[w.h] = <<[op |-> "attrs",
                      as |-> <<Attr("x", PanicValue("boom")), String("a", "1")>>,
                      name |-> ""]>>
    /\ w.r.Attrs = <<Attr("y", NilPointerValue), String("x", "2"),
                     Attr("z", ErrorValue("bad")), String("a", "3")>>
    /\ Concat(w.line) = "time=T1 level=INFO2 msg=m a=1 z=!ERROR:bad a=3 y=<nil>\n"

----------------------------------------------------------------------------
(* C22: the error of the sink.                                             *)

\* C22: when the sink's Write returns an error, Handle returns that
\* error; a call that returned made exactly one Write, whatever the
\* Write returned; and the mutex is held only by a call between its Lock
\* and its return, so no call that returned, failed or not, holds it.
C22_WriteErrorReturned ==
    \A g \in Goroutines :
        LET c == calls[g]
        IN  /\ c.pc = "idle" /\ c.h # 0 =>
                /\ c.ret = c.err
                /\ c.ret \in WriteErrors
                /\ c.nwrites = 1
            /\ c.pc = "return" => c.nwrites = 1
            /\ c.pc \in {"idle", "lock"} => mu # g
            /\ c.pc \in {"write", "return"} <=> mu = g
            /\ c.pc \in {"lock", "write"} => c.nwrites = 0

\* A call returned the error of the sink, and after it a call on the
\* other handler, derived from the first, got the mutex and wrote its line.
C22_Witness ==
    /\ calls["g1"].pc = "idle" /\ calls["g1"].ret = "EIO" /\ calls["g1"].h = 1
    /\ calls["g2"].pc = "return" /\ calls["g2"].h = 2 /\ calls["g2"].err = "nil"
    /\ mu = "g2"
    /\ w.g = "g2" /\ w.line = calls["g2"].line


----------------------------------------------------------------------------
(* C23, C24: the ReplaceAttr callback.                                     *)

\* What the callback named rep answers, read from the callbacks.
Answer(rep, path, a) ==
    CASE rep = "rewrite" -> rewrite(path, a)
      [] rep = "showGroups" -> showGroups(path, a)
      [] rep = "removeTime" -> removeTime(path, a)
      [] OTHER -> a

\* as as a handler without a callback has to be given it to render what
\* a handler with the callback rep renders for as inside the groups of
\* path: every attribute that is not a group is what the callback answers
\* for it and for path, nothing when that is the zero Attr; the attributes
\* of a group, given or answered, are taken inside that group.
RECURSIVE ReplacedAttrs(_, _, _)
ReplacedAttrs(as, path, rep) ==
    IF as = <<>> THEN <<>>
    ELSE LET a == Head(as)
             b == IF a.Value.kind = "Group" THEN a
                  ELSE Answer(rep, path,
                              IF a.Value.kind = "LogValuer"
                              THEN String(a.Key, a.Value.str) ELSE a)
             here ==
                IF b = EmptyAttr THEN <<>>
                ELSE IF b.Value.kind = "Group"
                THEN <<Group(b.Key,
                             ReplacedAttrs(b.Value.group,
                                           IF b.Key = "" THEN path ELSE Append(path, b.Key),
                                           rep))>>
                ELSE <<b>>
         IN  here \o ReplacedAttrs(Tail(as), path, rep)

ReplacedChain(chain, rep) ==
    [j \in 1..Len(chain) |->
        IF chain[j].op = "attrs"
        THEN [chain[j] EXCEPT
                 !.as = ReplacedAttrs(@, ChainPath(SubSeq(chain, 1, j - 1)), rep)]
        ELSE chain[j]]

\* The record with its built-in attributes and its own as the callback
\* answers for them: the built-ins are asked about with no group.
ReplacedRecord(r, path, rep) ==
    LET time == IF r.Time = ZeroTime THEN <<>>
                ELSE ReplacedAttrs(<<Attr(TimeKey, TimeValue(r.Time))>>, <<>>, rep)
        msg == ReplacedAttrs(<<String(MessageKey, r.Message)>>, <<>>, rep)
    IN  [r EXCEPT !.Time = IF time = <<>> THEN ZeroTime ELSE time[1].Value.str,
                  !.Message = msg[1].Value.str,
                  !.Attrs = ReplacedAttrs(@, path, rep)]

\* The line of a handler with the options of the first handler but no
\* callback, derived by chain, for the record r.
PlainLine(chain, r) ==
    handleAssemble(handleRender(
        ReplayFrom(NewLayoutHandler([WOpts EXCEPT !.ReplaceAttr = ReplaceAttrNil]), chain), r))

WReplaced ==
    PlainLine(ReplacedChain(hist[w.h], WOpts.ReplaceAttr),
              ReplacedRecord(w.r, ChainPath(hist[w.h]), WOpts.ReplaceAttr))

\* C23: what ReplaceAttr returns is what is rendered: the line of a handler
\* with the callback "rewrite" is the line a handler without a callback
\* writes when every attribute the callback answers a zero Attr for is not
\* there at all, every attribute it answers a group for is that group with
\* that key (its attributes inlined when the key is empty), and every other
\* attribute is the answered one, key and value, in Format lookup, slots
\* and rendering.
C23_ReplaceAttrResult ==
    Written /\ WOpts.ReplaceAttr = "rewrite" => w.line = WReplaced

\* A derived handler was given y=1 and r=1; the record's y=0 is dropped
\* and the suffix slot keeps y=1, its y=9 is rendered in place as k=9, its
\* r=6 is rendered as x under the Format and in the prefix slot of x.
C23_Witness ==
    /\ Written /\ WOpts.ReplaceAttr = "rewrite"
    /\ hist[w.h] = <<[op |-> "attrs", as |-> <<String("r", "1"), String("y", "1")>>,
                      name |-> ""]>>
    /\ w.r.Attrs = <<String("y", "0"), String("a", "5"), String("r", "6"), String("y", "9")>>
    /\ Concat(w.line) = "level=INFO X=6! msg=m a=5 k=9 y=1\n"

\* The record's u=7 is rendered as the group n, and the given i=4 inlined.
C23_GroupWitness ==
    /\ Written /\ WOpts.ReplaceAttr = "rewrite"
    /\ hist[w.h] = <<[op |-> "group", as |-> <<>>, name |-> "g"],
                     [op |-> "attrs",
                      as |-> <<Group("n", <<String("u", "2"), String("d", "3")>>),
                               String("i", "4")>>,
                      name |-> ""]>>
    /\ w.r.Time = ZeroTime /\ w.r.Attrs # <<>>
    /\ Concat(w.line) = "level=INFO msg=m g.n.n.b=2 g.n.n.c=8 g.c=4 g.n.m.b=1 g.n.a=2 B=7 g.n.c=8 g.v=3\n"


\* C24: ReplaceAttr is called once for every attribute that is not a
\* group and never for a group, with the value resolved and with the open
\* groups: none for the built-in attributes, also on a handler derived by
\* WithGroup; otherwise the WithGroup names, then the keys of the enclosing
\* groups, without the groups that are closed again.  The line of a
\* handler with the callback "showGroups", which writes the groups it is
\* given after every string value and drops every group it is given, is
\* the line of a handler without a callback for the same attributes with
\* these groups after their values.
C24_ReplaceAttrArguments ==
    Written /\ WOpts.ReplaceAttr = "showGroups" => w.line = WReplaced

\* A handler derived by WithGroup("g") and by WithAttrs with a group: the
\* message has no group, the attributes after the closed groups n and m
\* do not have these, and the LogValuer is a string when it is passed.
C24_Witness ==
    /\ Written /\ WOpts.ReplaceAttr = "showGroups"
    /\ hist[w.h] = <<[op |-> "group", as |-> <<>>, name |-> "g"],
                     [op |-> "attrs",
                      as |-> <<Group("n", <<String("u", "2"), String("d", "3")>>),
                               String("i", "4")>>,
                      name |-> ""]>>
    /\ w.r.Time = ZeroTime /\ w.r.Attrs # <<>>
    /\ Concat(w.line) = "level=INFO msg=m@ g.n.u=2@/g/n g.n.d=3@/g/n g.i=4@/g g.e.d=1@/g/e g.n.m.b=1@/g/n/m g.n.a=2@/g/n g.u=7@/g g.y=0@/g g.v=3@/g\n"


----------------------------------------------------------------------------
(* C25: a maximum width of 0.                                              *)

\* The directive has a maximum width of 0 and no literal text.
ShowsNoValue ==
    WFormat.MaxWidth = 0 /\ WFormat.Prefix = "" /\ WFormat.Suffix = ""

C25_NothingWitness ==
    /\ Appended /\ ShowsNoValue
    /\ fmtIn = << <<"%", "-", ".", "s">> >>
    /\ WAttr.Value.kind = "Text" /\ CodePoints(WAttr.Value.text) = 3
    /\ fmtOut.msg = <<>>
    /\ fmtOut.bufStart = sepNone


----------------------------------------------------------------------------
(* C27: GroupOrAttrs is a persistent chain.                                *)

\* What the calls of a chain added, in order: a group name for a WithGroup
\* with a name, every attribute of a WithAttrs list.
RECURSIVE Added(_)
Added(chain) ==
    IF chain = <<>> THEN <<>>
    ELSE LET c == Head(chain)
         IN  (IF c.op = "group" THEN <<[group |-> c.name, attr |-> EmptyAttr]>>
              ELSE [j \in 1..Len(c.as) |-> [group |-> "", attr |-> c.as[j]]])
                 \o Added(Tail(chain))

\* The last call asked for nothing: a list with no attribute that is not
\* an empty group, or an empty name.
WAsksNothing ==
    IF w.op = "attrs"
    THEN \A j \in 1..Len(w.as) : w.as[j].Value.kind = "Group" /\ w.as[j].Value.group = <<>>
    ELSE w.name = ""

\* After every call: a WithAttrs with an empty or all-empty-groups list
\* and a WithGroup("") returned the receiver, nil included; every other
\* call returned a new node, whose Total is the receiver's plus the number
\* of attributes given (plus 1 for a group); and for every chain All
\* yields Total items, the ones added, in the order they were added.
ChainState ==
    /\ w.op # "none" =>
          IF WAsksNothing
          THEN w.ret = w.recv
          ELSE /\ w.ret = Len(handlers) /\ w.ret # w.recv
               /\ parent[w.ret] = w.recv
               /\ goaTotal(handlers, w.ret)
                     = goaTotal(handlers, w.recv)
                          + (IF w.op = "attrs" THEN Len(w.as) ELSE 1)
    /\ \A g \in 0..Len(handlers) :
          /\ Len(goaAll(handlers, g)) = goaTotal(handlers, g)
          /\ goaAll(handlers, g) = Added(HistOf(g))

\* No call changes a node that exists.
NodesUnchanged == \A g \in 1..Len(handlers) : handlers'[g] = handlers[g]

\* C27: GroupOrAttrs is a persistent chain.  A call that asks for nothing
\* returns the receiver itself, nil included; every other call returns a
\* new node and changes no node that exists, so that chains derived from a
\* common ancestor do not affect each other; Total of the result is the
\* receiver's Total plus the number of attributes added (plus 1 for a
\* group), and All yields exactly Total items in the order they were added.
C27_PersistentChain == []ChainState /\ [][NodesUnchanged]_vars

\* Two chains derived from the same node, and a call on nil that asked for
\* nothing and returned nil.
C27_Witness ==
    /\ Len(handlers) = 4
    /\ parent[3] = 2 /\ parent[4] = 2
    /\ handlers[3].group = "g" /\ handlers[4].attrs = <<Group("e", <<>>), String("b", "2")>>
    /\ goaTotal(handlers, 4) = 3
    /\ w.recv = nilGoa /\ w.ret = nilGoa /\ w.op = "attrs" /\ w.as = <<Group("e", <<>>)>>


----------------------------------------------------------------------------
(* C26: GroupOrAttrs.Record.                                            *)

\* The calls of a chain that ask for something.
Asking(chain) ==
    LET Asks(c) == IF c.op = "group" THEN c.name # ""
                   ELSE \E j \in 1..Len(c.as) : ~isEmptyGroupValue(c.as[j].Value)
    IN  SelectAttrs(chain, Asks)

\* No group without attributes in as, at any depth.
RECURSIVE NoEmptyGroup(_)
NoEmptyGroup(as) ==
    \A j \in 1..Len(as) :
        as[j].Value.kind = "Group" =>
            as[j].Value.group # <<>> /\ NoEmptyGroup(as[j].Value.group)

\* What a call that returned was to return: the record with the fields of
\* r whose attributes, with their groups, are those of the chain's batches
\* in call order, each inside the groups opened before it, and then those
\* of r inside all the groups.
RecordAsReplayed(c) ==
    LET chain == Asking(HistOf(c.g))
    IN  /\ c.ret.Time = c.r.Time /\ c.ret.Level = c.r.Level
        /\ c.ret.Message = c.r.Message /\ c.ret.Source = c.r.Source
        /\ FlattenAttrs(c.ret.Attrs, <<>>, ReplaceAttrNil)
              = ChainLeaves(chain, ReplaceAttrNil)
                   \o FlattenAttrs(c.r.Attrs, ChainPath(chain), ReplaceAttrNil)
        /\ NoEmptyGroup(c.ret.Attrs)
        /\ goaTotal(handlers, c.g) = 0 => c.ret = c.r

\* The heap the calls began with: every node is the one its calls made.
HeapAsBuilt ==
    \A g \in 1..Len(handlers) :
        /\ goaAll(handlers, g) = Added(Asking(hist[g]))
        /\ parent[g] = handlers[g].prev

\* C26: Record returns a record with r's time, level, message and PC whose
\* attributes are what replaying the recorded calls in order gives: every
\* batch in call order inside the groups opened before it, r's own last
\* inside all groups, no group without attributes; r itself for a nil or
\* empty chain.  No call panics, the r a call was given is the r it has
\* when it returns, and no step of a call, of two that run at a time,
\* changes a node of the chain.
C26_RecordReplaysChain ==
    /\ [](\A gr \in Goroutines :
             /\ calls[gr].pc # "panic"
             /\ calls[gr].pc = "done" => RecordAsReplayed(calls[gr]))
    /\ []HeapAsBuilt
    /\ [][/\ handlers' = handlers
          /\ \A gr \in Goroutines :
                calls[gr].pc = "walk" => calls'[gr].r = calls[gr].r /\ calls'[gr].g = calls[gr].g]_vars

\* Two calls on the chain WithAttrs(a=1).WithGroup("g").WithAttrs(e{}, b=2)
\* have returned, one for a record without and one for a record with
\* attributes.
C26_Witness ==
    /\ Len(handlers) = 4
    /\ hist[4] = <<[op |-> "attrs", as |-> <<String("a", "1")>>, name |-> ""],
                   [op |-> "group", as |-> <<>>, name |-> "g"],
                   [op |-> "attrs", as |-> <<Group("e", <<>>), String("b", "2")>>, name |-> ""]>>
    /\ calls["g1"].pc = "done" /\ calls["g1"].g = 4 /\ calls["g1"].r.Attrs = <<>>
    /\ calls["g1"].ret.Attrs = <<String("a", "1"), Group("g", <<String("b", "2")>>)>>
    /\ calls["g2"].pc = "done" /\ calls["g2"].g = 4
    /\ calls["g2"].ret.Attrs
          = <<String("a", "1"),
              Group("g", <<String("b", "2"), String("c", "3"),
                           Group("k", <<String("d", "4")>>)>>)>>


----------------------------------------------------------------------------
(* C28: WrapHandler routes the With calls by its mode.                     *)

AsksNothingCall(c) ==
    IF c.op = "attrs" THEN \A j \in 1..Len(c.as) : isEmptyGroupValue(c.as[j].Value)
    ELSE c.name = ""

\* The calls of chain before its first WithGroup with a name.
RECURSIVE BeforeNamedGroup(_)
BeforeNamedGroup(chain) ==
    IF chain = <<>> \/ (Head(chain).op = "group" /\ Head(chain).name # "") THEN <<>>
    ELSE <<Head(chain)>> \o BeforeNamedGroup(Tail(chain))

\* The calls of chain that the mode cfg forwards to the next handler.
Forwarded(cfg, chain) ==
    IF cfg.ProxyWith THEN chain
    ELSE IF cfg.ProxyWithAttrs
    THEN LET IsAttrs(c) == c.op = "attrs"
         IN  SelectAttrs(BeforeNamedGroup(chain), IsAttrs)
    ELSE <<>>

\* The calls of chain that the mode cfg accumulates.
Accumulated(cfg, chain) ==
    IF cfg.ProxyWith THEN <<>>
    ELSE IF cfg.ProxyWithAttrs
    THEN SubSeq(chain, Len(BeforeNamedGroup(chain)) + 1, Len(chain))
    ELSE chain

\* The call c on a handler derived by chain is forwarded.
IsForwarded(cfg, chain, c) ==
    \/ cfg.ProxyWith
    \/ cfg.ProxyWithAttrs /\ c.op = "attrs" /\ BeforeNamedGroup(chain) = chain

WCall == [op |-> w.op, as |-> w.as, name |-> w.name]

\* What the With calls made of the WrapHandlers, and what the last call
\* returned.
WrapRouted ==
    /\ \A h \in 1..Len(handlers) :
          isWrapHandler(handlers[h]) =>
              LET o == handlers[h]
                  next == handlers[o.next]
                  Asks(c) == ~AsksNothingCall(c)
              IN  /\ next.withs = IF next.returnsSelf
                                  THEN SelectAttrs(Forwarded(o.cfg, hist[h]), Asks)
                                  ELSE Forwarded(o.cfg, hist[h])
                  /\ goaAll(handlers, o.goa) = Added(Accumulated(o.cfg, hist[h]))
                  /\ o.cfg.ProxyWith => o.goa = nilGoa
                  /\ o.goa = nilGoa <=> Accumulated(o.cfg, hist[h]) = <<>>
                  /\ o.cfg = handlers[2].cfg
    /\ w.op \in {"attrs", "group"} =>
          LET cfg == handlers[w.recv].cfg
              forwarded == IsForwarded(cfg, hist[w.recv], WCall)
              same == AsksNothingCall(WCall)
                         /\ (forwarded => handlers[handlers[w.recv].next].returnsSelf)
          IN  /\ same <=> w.ret = w.recv
              /\ ~same => /\ w.ret = Len(handlers) /\ isWrapHandler(handlers[w.ret])
                          /\ hist[w.ret] = Append(hist[w.recv], WCall)
                          /\ forwarded <=> handlers[w.ret].goa = handlers[w.recv].goa
                          /\ forwarded <=> handlers[w.ret].next # handlers[w.recv].next
    /\ w.op \in {"Enabled", "Handle"} =>
          /\ w.goa = handlers[w.recv].goa /\ w.next = handlers[w.recv].next
          /\ handlers[w.recv].cfg.ProxyWith => w.goa = nilGoa

\* C28: with ProxyWith every WithAttrs and WithGroup is forwarded to the
\* next handler and the callbacks get a nil GroupOrAttrs; with only
\* ProxyWithAttrs the WithAttrs calls are forwarded until the first
\* WithGroup with a name, and from then on every call is accumulated and
\* none forwarded; with neither, every call is accumulated.  A call that
\* changes neither the next handler nor the chain returns the receiver,
\* and no call changes an object that exists.
C28_WrapRouting == []WrapRouted /\ [][NodesUnchanged]_vars

\* With only ProxyWithAttrs: a=1 was forwarded, then g was opened, then
\* a=1 was accumulated, and the callback is given the chain g, a=1.
C28_Witness ==
    /\ w.op = "Handle"
    /\ ~handlers[w.recv].cfg.ProxyWith /\ handlers[w.recv].cfg.ProxyWithAttrs
    /\ hist[w.recv] = <<[op |-> "attrs", as |-> <<String("a", "1")>>, name |-> ""],
                        [op |-> "group", as |-> <<>>, name |-> "g"],
                        [op |-> "attrs", as |-> <<String("a", "1")>>, name |-> ""]>>
    /\ handlers[w.next].withs = <<[op |-> "attrs", as |-> <<String("a", "1")>>, name |-> ""]>>
    /\ goaAll(handlers, w.goa) = <<[group |-> "g", attr |-> EmptyAttr],
                                   [group |-> "", attr |-> String("a", "1")]>>


----------------------------------------------------------------------------
(* C29: what the parser makes of a valid format.                           *)

\* The number of '%' in a row just before position i of cs.
RECURSIVE PercentsBefore(_, _)
PercentsBefore(cs, i) ==
    IF i > 1 /\ cs[i - 1] = "%" THEN 1 + PercentsBefore(cs, i - 1) ELSE 0

\* The position of the '%' that starts the placeholder of cs, or 0: it is
\* not the second of a "%%" and no '%' follows it.
PlaceholderAt(cs) ==
    LET at == { i \in 1..Len(cs) :
                   /\ cs[i] = "%"
                   /\ PercentsBefore(cs, i) % 2 = 0
                   /\ (i = Len(cs) \/ cs[i + 1] # "%") }
    IN  IF at = {} THEN 0 ELSE CHOOSE i \in at : TRUE

\* The literal text cs[from..to] with "%" for every "%%".
LiteralText(cs, from, to) ==
    LET F[i \in (from - 1)..to] ==
            IF i < from THEN ""
            ELSE IF cs[i] = "%" /\ (PercentsBefore(cs, i) - PercentsBefore(cs, from)) % 2 = 1
            THEN F[i - 1]
            ELSE F[i - 1] \o cs[i]
    IN  F[to]

\* The directive the format cs stands for, read off its text.
Reading(cs) ==
    LET p == PlaceholderAt(cs)
    IN  IF p = 0
        THEN [Prefix |-> LiteralText(cs, 1, Len(cs)), Suffix |-> "",
              MinWidth |-> 0, MaxWidth |-> 0,
              AlignRight |-> TRUE, TruncFromStart |-> FALSE, SkipQuote |-> FALSE]
        ELSE LET v == CHOOSE i \in (p + 1)..Len(cs) :
                          /\ cs[i] \in {"v", "s"}
                          /\ \A k \in (p + 1)..(i - 1) : cs[k] \notin {"v", "s"}
                 dots == { i \in (p + 1)..(v - 1) : cs[i] = "." }
                 dot == IF dots = {} THEN v ELSE CHOOSE i \in dots : TRUE
                 IsDigits(i) == cs[i] \in DigitRuns
                 minDigits == { i \in (p + 1)..(dot - 1) : IsDigits(i) }
                 maxDigits == { i \in (dot + 1)..(v - 1) : IsDigits(i) }
                 Number(at) ==
                     DigitsValue([j \in 1..Cardinality(at) |->
                                     cs[CHOOSE i \in at :
                                           Cardinality({k \in at : k < i}) = j - 1]])
             IN  [Prefix |-> LiteralText(cs, 1, p - 1),
                  Suffix |-> LiteralText(cs, v + 1, Len(cs)),
                  MinWidth |-> IF minDigits = {} THEN 0 ELSE Number(minDigits),
                  MaxWidth |-> IF dots = {} THEN -1
                               ELSE IF maxDigits = {} THEN 0 ELSE Number(maxDigits),
                  AlignRight |-> ~(cs[p + 1] = "-"),
                  TruncFromStart |-> dots # {} /\ cs[dot + 1] = "-",
                  SkipQuote |-> cs[v] = "s"]

\* C29: for every valid format string the parser yields the directive the
\* string stands for: Prefix and Suffix are the literal runs before and
\* after the placeholder with "%" for every "%%"; AlignRight is false
\* exactly when '-' follows '%'; MinWidth is the integer before '.', or 0;
\* MaxWidth is -1 without a '.', 0 for a '.' with no digits, the integer
\* after the '.' otherwise, and 0 when there is no placeholder;
\* TruncFromStart is true exactly when '-' follows '.'; SkipQuote is true
\* exactly for the verb 's'.
C29_ParsedDirective ==
    fmtOut.state = "returned" =>
        \A i \in 1..Len(fmtIn) :
            handlers[1].opts.Format[FormatKeys[i]] = Reading(fmtIn[i])

\* "%%x%3.3s]" next to "%v".
C29_Witness ==
    /\ fmtOut.state = "returned"
    /\ fmtIn = << <<"%", "%", "x", "%", "3", ".", "3", "s", "]">>, <<"%", "v">> >>
    /\ handlers[1].opts.Format["k1"]
          = [Prefix |-> "%x", Suffix |-> "]", MinWidth |-> 3, MaxWidth |-> 3,
             AlignRight |-> TRUE, TruncFromStart |-> FALSE, SkipQuote |-> TRUE]
    /\ handlers[1].opts.Format["k2"] = [noFormat EXCEPT !.AlignRight = TRUE]


----------------------------------------------------------------------------
(* C30: pre-rendering.                                                     *)

\* The attributes of the WithAttrs calls of a chain, in call order.
RECURSIVE ChainAttrs(_)
ChainAttrs(chain) ==
    IF chain = <<>> THEN <<>>
    ELSE (IF Head(chain).op = "attrs" THEN Head(chain).as ELSE <<>>)
            \o ChainAttrs(Tail(chain))

NoGroupOpened(chain) == \A j \in 1..Len(chain) : chain[j].op = "attrs"

\* The line the first handler writes for r with the attributes as before
\* r's own.
DirectLine(as, r) == AloneLine(<<>>, [r EXCEPT !.Attrs = as \o @])

\* C30: pre-rendering is only an optimization: the line written through a
\* handler derived by WithAttrs calls alone is, byte for byte, the line the
\* handler they started from writes for the record with the attributes of
\* the calls before its own.
C30_PreRenderingEquivalent ==
    Written /\ NoGroupOpened(hist[w.h]) =>
        w.line = DirectLine(ChainAttrs(hist[w.h]), w.r)


============================================================================
